---- MODULE Spec2Model ----
(***************************************************************************)
(* Model of the InfraWatch AI agent: the predictive analytics engine       *)
(* (app/services/predictive_service.py, app/models/__init__.py), the       *)
(* lexical and vector retrieval stores (app/services/rag/vector_store*.py) *)
(* and the retrieval orchestrator (app/services/rag/rag_service.py).       *)
(*                                                                         *)
(* Number representation.  Python floats are modelled by exact integers    *)
(* in a fixed unit:                                                        *)
(*   - a percentage reading (cpu_usage, memory_usage) is held in tenths    *)
(*     of a percent: 85.5 % is 855;                                        *)
(*   - a latency reading (response_time, ping_rtt) is held in              *)
(*     milliseconds;                                                       *)
(*   - a probability or a confidence threshold is held in thousandths of   *)
(*     a percent: 78.0 is 78000.  Every probability formula of the rule    *)
(*     engine is exact in that unit for readings in the units above.       *)
(* A value read out of a telemetry mapping is a record [k, v]: k is the    *)
(* Python kind ("none": missing or None, "num": int or float, "numstr": a  *)
(* string that float() parses, "str": any other non-empty string) and v    *)
(* the number it denotes (0 when it denotes none).                         *)
(***************************************************************************)
EXTENDS Integers, Sequences, FiniteSets, TLC

VARIABLES
    config,              \* the PredictiveConfig of the analysis pass
    endpoint,            \* rule engine: the endpoint record under analysis
    endpoint_alerts,     \* rule engine: what _analyze_endpoint_trends returned
    rule_pc,             \* rule engine: "ready" | "done"
    threshold_arg,       \* analysis pass: the requested confidence_threshold
    infrastructure_data, \* analysis pass: the telemetry handed to the pass
    normalized,          \* analysis pass: its local list `endpoints`
    candidates,          \* analysis pass: the list the result is filtered from
    result,              \* analysis pass: the returned alerts
    path,                \* analysis pass: "empty" | "exception" | "normal"
    pc,                  \* analysis pass: "new", "configured", "done", "repeated", "raised"
    clock,               \* analysis pass: the time datetime.now() reads
    stamped,             \* analysis pass: the returned alerts with id, created_at
    repeated,            \* analysis pass: the same of a second, identical call
    overview,            \* analysis pass: the provider's overview, if fetched
    knowledge_base,      \* retrieval store: the documents it holds, in order
    now,                 \* retrieval store: the clock datetime.now() reads
    store_call,          \* retrieval store: the last call and its arguments
    store_return,        \* retrieval store: what that call returned
    just_added,          \* retrieval store: the document the call before added
    rag_call,            \* orchestrator: the arguments of process_query
    context_task,        \* orchestrator: state of the context lookup
    live_data_task,      \* orchestrator: state of the live-telemetry fetch
    fetches,             \* orchestrator: the three fetches of the live task
    generate_call,       \* orchestrator: the call made to generate_response
    response,            \* orchestrator: what process_query returned
    rag_pc,              \* orchestrator: position inside process_query
    gemini_call,         \* generation: "idle" | "ready" | "requested" | "done"
    response_text,       \* generation: what _make_gemini_request returned
    analysis_result,     \* generation: what generate_predictive_analysis returned
    returned_by,         \* generation: the return statement that produced it
    _access_token,       \* telemetry client: its access token, if any
    _refresh_token,      \* telemetry client: its refresh token, if any
    _token_expires_at,   \* telemetry client: when it stops trusting the token
    agent_credentials,   \* telemetry client: whether e-mail and password are set
    wall_clock,          \* telemetry client: the time datetime.now() reads
    calls                \* telemetry client: the _make_request calls under way

rule_state == <<endpoint, endpoint_alerts, rule_pc>>

pass_state == <<threshold_arg, infrastructure_data, normalized, candidates,
                result, path, pc, clock, stamped, repeated, overview>>

store_state == <<knowledge_base, now, store_call, store_return, just_added>>

rag_state == <<rag_call, context_task, live_data_task, fetches, generate_call,
               response, rag_pc>>

gemini_state == <<gemini_call, response_text, analysis_result, returned_by>>

client_state == <<_access_token, _refresh_token, _token_expires_at,
                  agent_credentials, wall_clock, calls>>

vars == <<config, rule_state, pass_state, store_state, rag_state,
         gemini_state, client_state>>

----------------------------------------------------------------------------
(* Values of a telemetry mapping *)

None == [k |-> "none", v |-> 0]
Num(n) == [k |-> "num", v |-> n]
NumStr(n) == [k |-> "numstr", v |-> n]
Str == [k |-> "str", v |-> 0]

\* Python truthiness: None and 0 are falsy, a non-empty string is truthy.
Truthy(x) == \/ x.k = "num" /\ x.v # 0
             \/ x.k \in {"numstr", "str"}

\* isinstance(x, (int, float))
IsNumber(x) == x.k = "num"

\* float(x) succeeds for a number and for a numeric string; it raises
\* ValueError for another string and TypeError for None.
FloatOk(x) == x.k \in {"num", "numstr"}

Min(a, b) == IF a <= b THEN a ELSE b
Max(a, b) == IF a >= b THEN a ELSE b

\* n percent in the unit of probabilities.
Pct(n) == n * 1000

----------------------------------------------------------------------------
(* app/models/__init__.py *)

\* PredictiveConfig.__init__: the effective threshold of constructor
\* argument t.
ClampThreshold_NoFloor(t) == Min(Pct(100), t)

ClampThreshold(t) == Max(Pct(50), Min(Pct(100), t))

\* endpoints is the allow-list of the request, [] when absent.
PredictiveConfig(t, endpoints) ==
    [confidence_threshold |-> ClampThreshold(t), endpoints |-> endpoints]

\* PredictiveAlert.__init__ clamps the probability into [0, 100].
ClampProbability(p) == Max(0, Min(Pct(100), p))

PredictiveAlert(ep, metric, issue, probability, estimated_time, cfg) ==
    [endpoint |-> ep,
     metric |-> metric,
     predicted_issue |-> issue,
     probability |-> ClampProbability(probability),
     estimated_time |-> estimated_time,
     confidence_threshold |-> cfg.confidence_threshold]

----------------------------------------------------------------------------
(* app/services/predictive_service.py: the threshold rules.  Each rule     *)
(* returns a sequence holding the alert it emits, or the empty sequence    *)
(* for Python's None.  data is the endpoint's "data" mapping:              *)
(* [cpu_usage, memory_usage, response_time: values, status: a string, or   *)
(* "<nonstring>" for a status that is not a string].                       *)

_analyze_cpu_trends_NoUpperBand(name, data, cfg) ==
    LET cpu_data == data.cpu_usage
        cpu_usage == cpu_data.v
    IN  IF ~Truthy(cpu_data) \/ ~IsNumber(cpu_data) THEN <<>>
        ELSE IF cpu_usage > 700
        THEN <<PredictiveAlert(name, "cpu_usage", "cpu_rising",
                               Pct(60) + (cpu_usage - 700) * 100,
                               "12-24 horas", cfg)>>
        ELSE <<>>

_analyze_cpu_trends(name, data, cfg) ==
    LET cpu_data == data.cpu_usage
        cpu_usage == cpu_data.v
    IN  IF ~Truthy(cpu_data) \/ ~IsNumber(cpu_data) THEN <<>>
        ELSE IF cpu_usage > 800
        THEN <<PredictiveAlert(name, "cpu_usage", "cpu_high",
                               Min(Pct(95), Pct(70) + (cpu_usage - 800) * 200),
                               IF cpu_usage > 900 THEN "2-4 horas"
                                                  ELSE "6-12 horas",
                               cfg)>>
        ELSE IF cpu_usage > 700
        THEN <<PredictiveAlert(name, "cpu_usage", "cpu_rising",
                               Pct(60) + (cpu_usage - 700) * 100,
                               "12-24 horas", cfg)>>
        ELSE <<>>

\* The variant of the memory rule without min(90, ...).
_analyze_memory_trends_Uncapped(name, data, cfg) ==
    LET memory_data == data.memory_usage
        memory_usage == memory_data.v
    IN  IF ~Truthy(memory_data) \/ ~IsNumber(memory_data) THEN <<>>
        ELSE IF memory_usage > 850
        THEN <<PredictiveAlert(name, "memory_usage", "memory_exhaustion",
                               Pct(75) + (memory_usage - 850) * 200,
                               IF memory_usage > 950 THEN "1-3 horas"
                                                     ELSE "4-8 horas",
                               cfg)>>
        ELSE IF memory_usage > 750
        THEN <<PredictiveAlert(name, "memory_usage", "memory_rising",
                               Pct(65) + (memory_usage - 750) * 100,
                               "8-16 horas", cfg)>>
        ELSE <<>>

_analyze_memory_trends(name, data, cfg) ==
    LET memory_data == data.memory_usage
        memory_usage == memory_data.v
    IN  IF ~Truthy(memory_data) \/ ~IsNumber(memory_data) THEN <<>>
        ELSE IF memory_usage > 850
        THEN <<PredictiveAlert(name, "memory_usage", "memory_exhaustion",
                               Min(Pct(90), Pct(75) + (memory_usage - 850) * 200),
                               IF memory_usage > 950 THEN "1-3 horas"
                                                     ELSE "4-8 horas",
                               cfg)>>
        ELSE IF memory_usage > 750
        THEN <<PredictiveAlert(name, "memory_usage", "memory_rising",
                               Pct(65) + (memory_usage - 750) * 100,
                               "8-16 horas", cfg)>>
        ELSE <<>>

_analyze_network_trends(name, data, cfg) ==
    LET response_time == data.response_time
        response_ms == response_time.v
    IN  IF ~Truthy(response_time) \/ ~IsNumber(response_time) THEN <<>>
        ELSE IF response_ms > 5000
        THEN <<PredictiveAlert(name, "response_time", "latency_critical",
                               Min(Pct(95), Pct(80) + (response_ms - 5000)),
                               "1-2 horas", cfg)>>
        ELSE IF response_ms > 2000
        THEN <<PredictiveAlert(name, "response_time", "latency_high",
                               Min(Pct(85), Pct(70) + (response_ms - 2000) * 10),
                               "2-6 horas", cfg)>>
        ELSE IF response_ms > 1000
        THEN <<PredictiveAlert(name, "response_time", "latency_degraded",
                               Pct(60) + (response_ms - 1000) * 20,
                               "6-12 horas", cfg)>>
        ELSE <<>>

(* Python strings are TLA+ strings; a character is a string of length 1. *)
CharAt(s, i) == SubSeq(s, i, i)

Chars(s) == {CharAt(s, i) : i \in 1..Len(s)}

UpperLetters == "ABCDEFGHIJKLMNOPQRSTUVWXYZÁÀÂÃÉÊÍÓÔÕÚÇ"

LowerLetters == "abcdefghijklmnopqrstuvwxyzáàâãéêíóôõúç"

\* str.lower() on one character: the Latin letters and the accented
\* letters of Portuguese; every other character of the model has no case.
LowerChar(c) ==
    IF c \in Chars(UpperLetters)
    THEN CharAt(LowerLetters,
                CHOOSE i \in 1..Len(UpperLetters) : CharAt(UpperLetters, i) = c)
    ELSE c

\* str.lower(), by halves so that the depth of the recursion is
\* logarithmic in the length.
RECURSIVE Lower(_)
Lower(s) ==
    IF s = "" THEN ""
    ELSE IF Len(s) = 1 THEN LowerChar(s)
    ELSE LET h == Len(s) \div 2
         IN  Lower(SubSeq(s, 1, h)) \o Lower(SubSeq(s, h + 1, Len(s)))

_analyze_availability_trends_LatencyFirst(name, data, cfg) ==
    LET status == Lower(data.status)
        response_time == data.response_time
    IN  IF data.status = "<nonstring>" THEN <<>>
        ELSE IF Truthy(response_time) /\ FloatOk(response_time)
                /\ response_time.v > 10000
        THEN <<PredictiveAlert(name, "availability", "extremely_slow",
                               Pct(85), "30 minutos - 2 horas", cfg)>>
        ELSE IF status = "offline"
        THEN <<PredictiveAlert(name, "availability", "endpoint_offline",
                               Pct(95), "Imediato", cfg)>>
        ELSE IF status = "disabled"
        THEN <<PredictiveAlert(name, "availability", "endpoint_disabled",
                               Pct(80), "Ate reativacao", cfg)>>
        ELSE <<>>

\* A status that is not a string makes .lower() raise; the rule's own
\* except clause turns that into None.
_analyze_availability_trends(name, data, cfg) ==
    LET status == Lower(data.status)
        response_time == data.response_time
    IN  IF data.status = "<nonstring>" THEN <<>>
        ELSE IF status = "offline"
        THEN <<PredictiveAlert(name, "availability", "endpoint_offline",
                               Pct(95), "Imediato", cfg)>>
        ELSE IF status = "disabled"
        THEN <<PredictiveAlert(name, "availability", "endpoint_disabled",
                               Pct(80), "Ate reativacao", cfg)>>
        ELSE IF Truthy(response_time) /\ status = "online"
                /\ FloatOk(response_time) /\ response_time.v > 10000
        THEN <<PredictiveAlert(name, "availability", "extremely_slow",
                               Pct(85), "30 minutos - 2 horas", cfg)>>
        ELSE <<>>

\* An endpoint is [name, has_data, data]; has_data is FALSE for an endpoint
\* whose "data" mapping is missing or empty.
_analyze_endpoint_trends_FirstOnly(ep, cfg) ==
    IF ~ep.has_data THEN <<>>
    ELSE LET cpu == _analyze_cpu_trends(ep.name, ep.data, cfg)
         IN  IF cpu # <<>> THEN cpu
             ELSE _analyze_memory_trends(ep.name, ep.data, cfg)
                  \o _analyze_network_trends(ep.name, ep.data, cfg)
                  \o _analyze_availability_trends(ep.name, ep.data, cfg)

_analyze_endpoint_trends(ep, cfg) ==
    IF ~ep.has_data THEN <<>>
    ELSE _analyze_cpu_trends(ep.name, ep.data, cfg)
         \o _analyze_memory_trends(ep.name, ep.data, cfg)
         \o _analyze_network_trends(ep.name, ep.data, cfg)
         \o _analyze_availability_trends(ep.name, ep.data, cfg)

----------------------------------------------------------------------------
(* app/services/predictive_service.py: normalisation of monitor records.   *)
(* A monitor is [endpoint: its address, kind, data]; kind is "ok" for a     *)
(* mapping whose "data" is a mapping, "data_null" for a mapping whose       *)
(* "data" is None and "not_mapping" for a record that is no mapping.  data  *)
(* is [hrProcessorLoad, memTotalReal, memAvailReal, ping_rtt, status,       *)
(* active: values]; the booleans True and False are Num(1) and Num(0), and  *)
(* `active is False` holds of the boolean False only, written ActiveFalse.  *)

ActiveFalse == [k |-> "false", v |-> 0]

\* memory_usage in tenths of a percent: ((total - avail) / total) * 100.  The
\* counters of the model are chosen so that the quotient is exact.
MemUsedPct(mem_total_val, mem_avail_val) ==
    ((mem_total_val - mem_avail_val) * 1000) \div mem_total_val

ConvertCpu(data) ==
    IF data.hrProcessorLoad.k # "none" /\ FloatOk(data.hrProcessorLoad)
    THEN Num(data.hrProcessorLoad.v) ELSE None

ConvertMemory_PresenceTest(data) ==
    LET mem_total == data.memTotalReal
        mem_avail == data.memAvailReal
    IN  IF mem_total.k # "none" /\ mem_avail.k # "none"
           /\ FloatOk(mem_total) /\ FloatOk(mem_avail) /\ mem_total.v > 0
        THEN Num(MemUsedPct(mem_total.v, mem_avail.v))
        ELSE None

\* `if mem_total and mem_avail:` tests the truth of both counters, so a
\* counter that is 0 counts as missing.
ConvertMemory(data) ==
    LET mem_total == data.memTotalReal
        mem_avail == data.memAvailReal
    IN  IF Truthy(mem_total) /\ Truthy(mem_avail)
           /\ FloatOk(mem_total) /\ FloatOk(mem_avail) /\ mem_total.v > 0
        THEN Num(MemUsedPct(mem_total.v, mem_avail.v))
        ELSE None

ConvertLatency(data) ==
    IF Truthy(data.ping_rtt) /\ FloatOk(data.ping_rtt)
    THEN Num(data.ping_rtt.v) ELSE None

\* The variant that disables a monitor on any falsy active flag.
ConvertStatus_FalsyActive(data) ==
    IF data.active = ActiveFalse \/ ~Truthy(data.active) THEN "disabled"
    ELSE IF Truthy(data.status) THEN "online" ELSE "offline"

ConvertStatus(data) ==
    IF data.active = ActiveFalse THEN "disabled"
    ELSE IF Truthy(data.status) THEN "online" ELSE "offline"

ConvertMonitor(monitor) ==
    [name |-> monitor.endpoint,
     has_data |-> TRUE,
     data |-> [cpu_usage |-> ConvertCpu(monitor.data),
               memory_usage |-> ConvertMemory(monitor.data),
               response_time |-> ConvertLatency(monitor.data),
               status |-> ConvertStatus(monitor.data)]]

\* A monitor whose data is None raises inside the loop's try and is skipped.
\* A monitor that is no mapping raises inside the try and again in the
\* except clause's own monitor.get(...), which leaves the function.
ConvertRaises(monitors) ==
    \E i \in 1..Len(monitors) : monitors[i].kind = "not_mapping"

RECURSIVE _convert_monitors_to_endpoints(_)
_convert_monitors_to_endpoints(monitors) ==
    IF monitors = <<>> THEN <<>>
    ELSE LET monitor == Head(monitors)
             rest == _convert_monitors_to_endpoints(Tail(monitors))
         IN  IF monitor.kind = "ok" THEN <<ConvertMonitor(monitor)>> \o rest
             ELSE rest

----------------------------------------------------------------------------
(* app/services/predictive_service.py: aggregate health, alert patterns,   *)
(* exemplar alerts and the analysis pass.                                  *)

\* The variant of the aggregate rule whose network_health test is
\* offline_ratio >= 0.3.
_analyze_general_health_AtThirty(infra, cfg) ==
    LET total_endpoints == infra.total_endpoints
        total_online == infra.total_online
        total_offline == infra.total_offline
    IN  IF total_endpoints = 0 THEN <<>>
        ELSE (IF total_online * 100 < 50 * total_endpoints
              THEN <<PredictiveAlert("Infraestrutura Geral", "availability",
                                     "low_availability", Pct(90), "Imediato", cfg)>>
              ELSE IF total_online * 100 < 80 * total_endpoints
              THEN <<PredictiveAlert("Infraestrutura Geral", "availability",
                                     "availability_at_risk", Pct(75), "2-4 horas",
                                     cfg)>>
              ELSE <<>>)
             \o (IF total_offline > 0 /\ total_offline * 10 >= 3 * total_endpoints
                 THEN <<PredictiveAlert("Rede/Conectividade", "network_health",
                                        "many_offline", Pct(85), "1-2 horas", cfg)>>
                 ELSE <<>>)

_analyze_general_health(infra, cfg) ==
    LET total_endpoints == infra.total_endpoints
        total_online == infra.total_online
        total_offline == infra.total_offline
        \* availability_pct = (total_online / total_endpoints) * 100
        low == total_online * 100 < 50 * total_endpoints
        risk == total_online * 100 < 80 * total_endpoints
    IN  IF total_endpoints = 0 THEN <<>>
        ELSE (IF low
              THEN <<PredictiveAlert("Infraestrutura Geral", "availability",
                                     "low_availability", Pct(90), "Imediato", cfg)>>
              ELSE IF risk
              THEN <<PredictiveAlert("Infraestrutura Geral", "availability",
                                     "availability_at_risk", Pct(75), "2-4 horas",
                                     cfg)>>
              ELSE <<>>)
             \o (IF total_offline > 0 /\ total_offline * 10 > 3 * total_endpoints
                 THEN <<PredictiveAlert("Rede/Conectividade", "network_health",
                                        "many_offline", Pct(85), "1-2 horas", cfg)>>
                 ELSE <<>>)

\* The endpoint identifiers of the alert records, each once, in the order of
\* first occurrence (the insertion order of the grouping dict).
RECURSIVE GroupKeys(_, _)
GroupKeys(alerts, seen) ==
    IF alerts = <<>> THEN <<>>
    ELSE IF Head(alerts) \in seen THEN GroupKeys(Tail(alerts), seen)
    ELSE <<Head(alerts)>> \o GroupKeys(Tail(alerts), seen \cup {Head(alerts)})

GroupSize(alerts, ep) == Cardinality({i \in 1..Len(alerts) : alerts[i] = ep})

RECURSIVE PatternAlerts(_, _, _)
PatternAlerts(keys, alerts, cfg) ==
    IF keys = <<>> THEN <<>>
    ELSE (IF GroupSize(alerts, Head(keys)) >= 3
          THEN <<PredictiveAlert(Head(keys), "alert_frequency", "multiple_alerts",
                                 Pct(80), "1-4 horas", cfg)>>
          ELSE <<>>)
         \o PatternAlerts(Tail(keys), alerts, cfg)

\* The variant of the detector that does not group: one alert per record of
\* an identifier with three records or more.
_analyze_alert_patterns_PerRecord(alerts, cfg) ==
    PatternAlerts(alerts, alerts, cfg)

\* alerts is the sequence of the records' "endpoint" identifiers.
_analyze_alert_patterns(alerts, cfg) ==
    PatternAlerts(GroupKeys(alerts, {}), alerts, cfg)

\* [alert for alert in alerts if alert.probability >= threshold]
FilterByThreshold(alerts, cfg) ==
    LET Passes(a) == a.probability >= cfg.confidence_threshold
    IN  SelectSeq(alerts, Passes)

SampleAlerts(cfg) ==
    <<PredictiveAlert("Server-01", "cpu_usage", "sample_cpu", Pct(78),
                      "4-8 horas", cfg),
      PredictiveAlert("Server-02", "memory_usage", "sample_memory", Pct(72),
                      "6-12 horas", cfg),
      PredictiveAlert("Router-01", "network_latency", "sample_network", Pct(68),
                      "2-6 horas", cfg)>>

_generate_sample_alerts_Unfiltered(cfg) == SampleAlerts(cfg)

_generate_sample_alerts(cfg) == FilterByThreshold(SampleAlerts(cfg), cfg)

\* list.sort(key=probability, reverse=True): a stable sort, so alerts of
\* equal probability keep their order.  InsertDesc puts a after every alert
\* whose probability is at least a's.
RECURSIVE InsertDesc(_, _)
InsertDesc(sorted, a) ==
    IF sorted = <<>> THEN <<a>>
    ELSE IF Head(sorted).probability >= a.probability
    THEN <<Head(sorted)>> \o InsertDesc(Tail(sorted), a)
    ELSE <<a>> \o sorted

RECURSIVE InsertDescUnstable(_, _)
InsertDescUnstable(sorted, a) ==
    IF sorted = <<>> THEN <<a>>
    ELSE IF Head(sorted).probability > a.probability
    THEN <<Head(sorted)>> \o InsertDescUnstable(Tail(sorted), a)
    ELSE <<a>> \o sorted

RECURSIVE SortUnstable(_)
SortUnstable(alerts) ==
    IF alerts = <<>> THEN <<>>
    ELSE InsertDescUnstable(SortUnstable(SubSeq(alerts, 1, Len(alerts) - 1)),
                            alerts[Len(alerts)])

RECURSIVE SortByProbability(_)
SortByProbability(alerts) ==
    IF alerts = <<>> THEN <<>>
    ELSE InsertDesc(SortByProbability(SubSeq(alerts, 1, Len(alerts) - 1)),
                    alerts[Len(alerts)])

MaxReturned == 10

TopAlerts_NoLimit(alerts) == alerts

\* filtered_alerts[:10]
TopAlerts(alerts) == SubSeq(alerts, 1, Min(Len(alerts), MaxReturned))

RECURSIVE EndpointAlerts(_, _)
EndpointAlerts(endpoints, cfg) ==
    IF endpoints = <<>> THEN <<>>
    ELSE _analyze_endpoint_trends(Head(endpoints), cfg)
         \o EndpointAlerts(Tail(endpoints), cfg)

\* The alerts derived from the data of a well-formed telemetry mapping
\* (lines 33-64): per-endpoint rules or the aggregate rule, then the pattern
\* alerts.
DerivedAlerts(infra, cfg) ==
    LET endpoints == IF infra.monitors # <<>>
                     THEN _convert_monitors_to_endpoints(infra.monitors)
                     ELSE infra.endpoints
    IN  (IF endpoints = <<>>
         THEN (IF infra.total_endpoints > 0
               THEN _analyze_general_health(infra, cfg) ELSE <<>>)
         ELSE EndpointAlerts(endpoints, cfg))
        \o _analyze_alert_patterns(infra.alerts, cfg)

\* The variant of the padding that adds the exemplars whatever was derived.
Candidates_AlwaysPadded(infra, cfg) ==
    LET sample_alerts == _generate_sample_alerts(cfg)
    IN  DerivedAlerts(infra, cfg)
          \o SubSeq(sample_alerts, 1, Min(3, Len(sample_alerts)))

\* The candidate alerts of a well-formed telemetry mapping (lines 33-71):
\* the derived alerts, then up to three exemplars when fewer than three
\* alerts were derived.
Candidates(infra, cfg) ==
    LET derived == DerivedAlerts(infra, cfg)
        sample_alerts == _generate_sample_alerts(cfg)
    IN  IF Len(derived) < 3
        THEN derived \o SubSeq(sample_alerts, 1, Min(3, Len(sample_alerts)))
        ELSE derived

\* Which way the pass leaves: "empty" (falsy input, line 31), "exception"
\* (the except clause, line 87) or "normal" (line 83).  A telemetry value
\* that is no mapping has no .get; a monitor that is no mapping makes the
\* conversion raise.
AnalysisPath(infra) ==
    IF infra.kind = "none" THEN "empty"
    ELSE IF infra.kind = "not_mapping" THEN "exception"
    ELSE IF infra.monitors # <<>> /\ ConvertRaises(infra.monitors) THEN "exception"
    ELSE "normal"

\* The list the returned alerts are filtered from: `alerts` as it stands at
\* line 73 on the normal path, the exemplar list on the two fallback paths.
AnalysisCandidates(infra, cfg) ==
    IF AnalysisPath(infra) = "normal" THEN Candidates(infra, cfg)
    ELSE SampleAlerts(cfg)

\* The local list `endpoints` of a pass that takes the normal path.
AnalysisEndpoints(infra) ==
    IF AnalysisPath(infra) # "normal" THEN <<>>
    ELSE IF infra.monitors # <<>>
    THEN _convert_monitors_to_endpoints(infra.monitors)
    ELSE infra.endpoints

\* The variant of the pass without its except clause.
PassRaises_NoExcept(infra, cfg) == AnalysisPath(infra) = "exception"

\* The pass raises only when its except clause does: that clause calls
\* _generate_sample_alerts(config), which reads config.confidence_threshold
\* and builds three alerts from literals.
PassRaises(infra, cfg) ==
    /\ AnalysisPath(infra) = "exception"
    /\ "confidence_threshold" \notin DOMAIN cfg

\* str(hash(f"{endpoint}{metric}{datetime.now().isoformat()}")): the hash
\* of a process is a function of the string, which holds the time.
AlertId(ep, metric, time) == [hash |-> <<ep, metric, time>>]

\* The alerts as PredictiveAlert.__init__ leaves them when it runs at the
\* given time: id hashes the time and created_at is the time.  Neither
\* field is read by the pass, so they are added to what it returns.
Stamped(alerts, time) ==
    [i \in 1..Len(alerts) |->
        [alert |-> alerts[i],
         id |-> AlertId(alerts[i].endpoint, alerts[i].metric, time),
         created_at |-> time]]

analyze_predictive_patterns(infra, cfg) ==
    IF AnalysisPath(infra) = "normal"
    THEN TopAlerts(SortByProbability(FilterByThreshold(Candidates(infra, cfg), cfg)))
    ELSE _generate_sample_alerts(cfg)

----------------------------------------------------------------------------
(* The analysis pass: Spec draws the requested threshold and the telemetry, *)
(* CreateConfig is PredictiveConfig(...) and Analyze is one call of         *)
(* analyze_predictive_patterns, as in generate_predictive_analysis          *)
(* (app/api/predictive.py).                                                 *)

MaxEndpoints == 3
MaxMonitors == 2

\* An empty "data" mapping.
NoData ==
    [cpu_usage |-> None, memory_usage |-> None, response_time |-> None,
     status |-> ""]

\* The sequences over S of length at most n.
BoundedSeq(S, n) == UNION {[1..k -> S] : k \in 0..n}

Ep(name, cpu, mem, rt, status) ==
    [name |-> name, has_data |-> TRUE,
     data |-> [cpu_usage |-> cpu, memory_usage |-> mem, response_time |-> rt,
               status |-> status]]

\* Alerts at 95, 90, 87 and 85.
EpHot(name) == Ep(name, Num(950), Num(960), Num(12000), "online")

SampleEndpoints ==
    {EpHot("srv-a"), EpHot("srv-b"),
     Ep("srv-c", Num(750), Num(800), Num(1500), "offline"), \* 65, 70, 70, 95
     Ep("srv-d", Num(750), Num(760), Num(1200), "online"),  \* 65, 66, 64
     Ep("srv-e", Num(850), None, None, "disabled")}         \* 80, 80

Mon(name, kind, cpu, total, avail, rtt, status, active) ==
    [endpoint |-> name, kind |-> kind,
     data |-> [hrProcessorLoad |-> cpu, memTotalReal |-> total,
               memAvailReal |-> avail, ping_rtt |-> rtt, status |-> status,
               active |-> active]]

SampleMonitors ==
    {Mon("127.0.0.1", "ok", Num(855), Num(8192), Num(1024), NumStr(337), Num(0), Num(1)),
     Mon("192.168.1.1", "ok", None, None, None, NumStr(11669), Num(0), Num(1)),
     Mon("8.8.8.8", "ok", None, None, None, NumStr(338), Num(1), Num(1)),
     Mon("10.0.0.1", "ok", None, Num(8192), Num(0), None, Num(1), Num(1)),
     Mon("10.0.0.2", "ok", NumStr(900), Num(0), Num(1024), None, Num(1), None),
     Mon("10.0.0.3", "ok", Str, NumStr(1000), NumStr(150), Num(0), Num(1), ActiveFalse),
     Mon("10.0.0.4", "ok", Num(0), Str, Num(1024), Str, None, None),
     Mon("10.0.0.5", "data_null", None, None, None, None, None, None),
     Mon("10.0.0.6", "not_mapping", None, None, None, None, None, None)}

\* (total_endpoints, total_online, total_offline)
AggregateCounts ==
    {<<0, 0, 0>>, <<10, 10, 0>>, <<10, 8, 2>>, <<10, 7, 3>>, <<10, 6, 4>>,
     <<10, 5, 5>>, <<10, 4, 6>>, <<14, 3, 11>>, <<10, 0, 0>>, <<0, 0, 4>>}

AlertHistories ==
    {<<>>,
     <<"srv-a", "srv-b", "srv-a">>,
     <<"srv-a", "srv-a", "srv-a">>,
     <<"srv-b", "srv-a", "srv-b", "srv-a", "srv-b", "srv-a", "Unknown">>}

Telemetry(kind, endpoints, monitors, counts, alerts) ==
    [kind |-> kind, endpoints |-> endpoints, monitors |-> monitors,
     total_endpoints |-> counts[1], total_online |-> counts[2],
     total_offline |-> counts[3], alerts |-> alerts]

\* None or {} ...
NoTelemetry == Telemetry("none", <<>>, <<>>, <<0, 0, 0>>, <<>>)
\* ... and a value that is no mapping, such as a non-empty list.
BadTelemetry == Telemetry("not_mapping", <<>>, <<>>, <<0, 0, 0>>, <<>>)

\* Lists of records of distinct endpoints.
EndpointLists ==
    {eps \in BoundedSeq(SampleEndpoints, MaxEndpoints) :
        \A i, j \in 1..Len(eps) : eps[i].name = eps[j].name => i = j}

EndpointTelemetry ==
    {Telemetry("dict", eps, <<>>, <<0, 0, 0>>, al) :
        eps \in EndpointLists, al \in AlertHistories}

MonitorTelemetry ==
    {Telemetry("dict", <<>>, ms, h[1], h[2]) :
        ms \in BoundedSeq(SampleMonitors, MaxMonitors) \ {<<>>},
        h \in {<<<<0, 0, 0>>, <<>>>>,
               <<<<14, 3, 11>>, <<"srv-a", "srv-a", "srv-a">>>>}}

AggregateTelemetry ==
    {Telemetry("dict", <<>>, <<>>, c, al) :
        c \in AggregateCounts, al \in AlertHistories}

TelemetryInputs ==
    {NoTelemetry, BadTelemetry} \cup EndpointTelemetry \cup MonitorTelemetry
    \cup AggregateTelemetry

\* d.get(key, default) on a mapping d.
Get(d, key, default) == IF key \in DOMAIN d THEN d[key] ELSE default

\* The keys of the live telemetry provider's overview that the pass could
\* read, from the data of the backend's /monitor/overview reply.
get_infrastructure_overview(data) ==
    [total_endpoints |-> Get(data, "total_endpoints", 0),
     online_endpoints |-> Get(data, "online_endpoints", 0),
     offline_endpoints |-> Get(data, "offline_endpoints", 0)]

\* (total_endpoints, online_endpoints, offline_endpoints) of the backend.
OverviewCounts ==
    {<<10, 10, 0>>, <<10, 8, 2>>, <<10, 7, 3>>, <<10, 4, 6>>, <<0, 0, 0>>}

OverviewReplies ==
    {[total_endpoints |-> c[1], online_endpoints |-> c[2],
      offline_endpoints |-> c[3]] : c \in OverviewCounts}
    \cup {[total_endpoints |-> 4, online_endpoints |-> 4]}

Overviews == {get_infrastructure_overview(data) : data \in OverviewReplies}

\* No overview was fetched: the telemetry was handed to the pass as it is.
NoOverview == [total_endpoints |-> -1]

\* What the pass reads from a mapping: every key with the default of its
\* .get call.
ReadTelemetry(d) ==
    Telemetry("dict", Get(d, "endpoints", <<>>), Get(d, "monitors", <<>>),
              <<Get(d, "total_endpoints", 0), Get(d, "total_online", 0),
                Get(d, "total_offline", 0)>>,
              Get(d, "alerts", <<>>))

\* Requested thresholds: a sweep from -20 to 150 in steps of 2.5 with the
\* values next to the two clamping bounds, tried on absent telemetry, and a
\* few thresholds tried on every telemetry input.
ThresholdSweep ==
    {k * 2500 : k \in -8..60} \cup {49999, 50001, 99999, 100001}

PassThresholds == {Pct(30), Pct(70), 72001, Pct(80), Pct(95), Pct(120)}

NoConfig == [confidence_threshold |-> -1]

\* request.endpoints: absent, or an allow-list naming one endpoint.  The
\* allow-list is tried at the default threshold on per-endpoint telemetry.
RequestedEndpoints == {<<>>, <<"srv-a">>}

\* The retrieval store's variables while another component is under study.
StoreIdle ==
    /\ knowledge_base = <<>>
    /\ now = 0
    /\ store_call = [op |-> "idle"]
    /\ store_return = [kind |-> "idle"]
    /\ just_added = [kind |-> "idle"]

\* The orchestrator's variables while another component is under study.
RagIdle ==
    /\ rag_call = [query |-> "idle"]
    /\ context_task = [st |-> "idle"]
    /\ live_data_task = [st |-> "idle"]
    /\ fetches = [overview |-> "idle", alerts |-> "idle", metrics |-> "idle"]
    /\ generate_call = [called |-> FALSE]
    /\ response = [kind |-> "idle"]
    /\ rag_pc = "idle"

\* The generation collaborator's variables while another component is under
\* study.
GeminiIdle ==
    /\ gemini_call = "idle"
    /\ response_text = ""
    /\ analysis_result = [confidence |-> 0, predictions |-> <<>>]
    /\ returned_by = "none"

\* The concurrent tasks that share the telemetry client: two of the fetches
\* that _get_live_infrastructure_data gathers.
Callers == {"alerts", "metrics"}

NoToken == [via |-> "none", by |-> ""]

\* The token an authentication exchange of a caller obtained.
Token(via, by) == [via |-> via, by |-> by]

NoExpiry == -1

IdleCall ==
    [pc |-> "idle", retry_on_auth_failure |-> TRUE, found |-> "none",
     exchanges |-> <<>>, statuses |-> <<>>, sent |-> 0]

\* The telemetry client's variables while another component is under study.
ClientIdle ==
    /\ _access_token = NoToken
    /\ _refresh_token = NoToken
    /\ _token_expires_at = NoExpiry
    /\ agent_credentials = FALSE
    /\ wall_clock = 0
    /\ calls = [c \in Callers |-> IdleCall]

\* The rule engine's variables while another component is under study.
RulesIdle ==
    /\ endpoint = [name |-> "", has_data |-> FALSE, data |-> NoData]
    /\ endpoint_alerts = <<>>
    /\ rule_pc = "idle"

Init ==
    /\ GeminiIdle
    /\ ClientIdle
    /\ RulesIdle
    /\ StoreIdle
    /\ RagIdle
    /\ \/ /\ threshold_arg \in ThresholdSweep
          /\ infrastructure_data = NoTelemetry
          /\ overview = NoOverview
       \/ /\ threshold_arg \in PassThresholds
          /\ infrastructure_data \in TelemetryInputs
          /\ overview = NoOverview
       \/ /\ threshold_arg \in PassThresholds
          /\ overview \in Overviews
          /\ infrastructure_data = ReadTelemetry(overview)
    /\ config = NoConfig
    /\ normalized = <<>>
    /\ candidates = <<>>
    /\ result = <<>>
    /\ path = "none"
    /\ pc = "new"
    /\ clock = 1
    /\ stamped = <<>>
    /\ repeated = <<>>

\* config = PredictiveConfig(confidence_threshold=request.confidence_threshold)
CreateConfig ==
    /\ pc = "new"
    /\ \E endpoints \in RequestedEndpoints :
          /\ endpoints # <<>> =>
                /\ threshold_arg = Pct(70)
                /\ infrastructure_data.endpoints # <<>>
          /\ config' = PredictiveConfig(threshold_arg, endpoints)
    /\ pc' = "configured"
    /\ UNCHANGED <<threshold_arg, infrastructure_data, normalized, candidates,
                   result, path, clock, stamped, repeated, overview,
                   rule_state, store_state, rag_state, gemini_state,
                   client_state>>

\* alerts = await predictive_service.analyze_predictive_patterns(data, config)
Analyze ==
    /\ pc = "configured"
    /\ IF PassRaises(infrastructure_data, config)
       THEN /\ pc' = "raised"
            /\ UNCHANGED <<path, normalized, candidates, result, stamped>>
       ELSE /\ path' = AnalysisPath(infrastructure_data)
            /\ normalized' = AnalysisEndpoints(infrastructure_data)
            /\ candidates' = AnalysisCandidates(infrastructure_data, config)
            /\ result' = analyze_predictive_patterns(infrastructure_data, config)
            /\ stamped' = Stamped(result', clock)
            /\ pc' = "done"
    /\ clock' = clock + 1
    /\ UNCHANGED <<config, threshold_arg, infrastructure_data, repeated,
                   overview, rule_state, store_state, rag_state, gemini_state,
                   client_state>>

\* A second call with the same telemetry and the same config, later.
AnalyzeAgain ==
    /\ pc = "done"
    /\ repeated' = Stamped(analyze_predictive_patterns(infrastructure_data,
                                                       config), clock)
    /\ clock' = clock + 1
    /\ pc' = "repeated"
    /\ UNCHANGED <<config, threshold_arg, infrastructure_data, normalized,
                   candidates, result, path, stamped, overview, rule_state,
                   store_state, rag_state, gemini_state,
                   client_state>>

Next == CreateConfig \/ Analyze \/ AnalyzeAgain

Spec == Init /\ [][Next]_vars

----------------------------------------------------------------------------
(* The rule engine on one endpoint: SpecRules draws the endpoint and the   *)
(* config, AnalyzeEndpoint is one call of _analyze_endpoint_trends.        *)

CpuReadings ==
    {None, Str, NumStr(850)} \cup
    {Num(n) : n \in {0, 650, 700, 701, 755, 800, 801, 850, 855, 900, 901,
                     925, 930, 1000}}

MemoryReadings ==
    {None} \cup
    {Num(n) : n \in {0, 750, 751, 850, 851, 900, 925, 951, 1000}}

LatencyReadings ==
    {None, NumStr(12000)} \cup
    {Num(n) : n \in {338, 1000, 1001, 2000, 2001, 3500, 5000, 5001, 10001,
                     20000, 25000}}

StatusValues ==
    {"online", "offline", "disabled", "OFFLINE", "warning", "", "<nonstring>"}

EndpointData ==
    [cpu_usage : CpuReadings, memory_usage : MemoryReadings,
     response_time : LatencyReadings, status : StatusValues]

RuleEndpoints ==
    {[name |-> "ep1", has_data |-> TRUE, data |-> d] : d \in EndpointData}
    \cup {[name |-> "ep1", has_data |-> FALSE, data |-> NoData]}

RuleThresholds == {Pct(70), Pct(90)}

\* The analysis pass's variables while another component is under study.
PassIdle ==
    /\ threshold_arg = 0
    /\ infrastructure_data = NoTelemetry
    /\ normalized = <<>>
    /\ candidates = <<>>
    /\ result = <<>>
    /\ path = "none"
    /\ pc = "idle"
    /\ clock = 0
    /\ stamped = <<>>
    /\ repeated = <<>>
    /\ overview = NoOverview

InitRules ==
    /\ GeminiIdle
    /\ ClientIdle
    /\ PassIdle
    /\ StoreIdle
    /\ RagIdle
    /\ config \in {PredictiveConfig(t, <<>>) : t \in RuleThresholds}
    /\ endpoint \in RuleEndpoints
    /\ endpoint_alerts = <<>>
    /\ rule_pc = "ready"

AnalyzeEndpoint ==
    /\ rule_pc = "ready"
    /\ endpoint_alerts' = _analyze_endpoint_trends(endpoint, config)
    /\ rule_pc' = "done"
    /\ UNCHANGED <<config, endpoint, pass_state, store_state, rag_state, gemini_state,
                   client_state>>

NextRules == AnalyzeEndpoint

SpecRules == InitRules /\ [][NextRules]_vars

----------------------------------------------------------------------------
(* Properties of the rule engine (SpecRules) *)

\* The alerts of one metric family among a list of alerts.
FamilyAlerts(alerts, m) ==
    LET IsFamily(a) == a.metric = m
    IN  SelectSeq(alerts, IsFamily)

Families == {"cpu_usage", "memory_usage", "response_time", "availability"}

\* ep with every reading outside `keep` removed from its data mapping.
Project(ep, keep) ==
    [ep EXCEPT !.data =
        [cpu_usage |-> IF "cpu_usage" \in keep THEN ep.data.cpu_usage ELSE None,
         memory_usage |-> IF "memory_usage" \in keep THEN ep.data.memory_usage
                                                     ELSE None,
         response_time |-> IF "response_time" \in keep
                           THEN ep.data.response_time ELSE None,
         status |-> IF "status" \in keep THEN ep.data.status ELSE ""]]

\* The family-m alert of the endpoint is the one the engine gives an endpoint
\* that carries only the readings in `keep`.
DependsOnlyOn(m, keep) ==
    FamilyAlerts(endpoint_alerts, m)
        = FamilyAlerts(_analyze_endpoint_trends(Project(endpoint, keep), config), m)

\* C4: for a numeric cpu_usage v, the CPU alert has probability
\* min(95, 70 + 2(v - 80)) when v > 80 (estimated time 2-4h above 90, 6-12h
\* otherwise), 60 + (v - 70) and 12-24h when 70 < v <= 80, and there is no
\* CPU alert when v <= 70; the probability lies in [0, 100].
C4_CpuRule ==
    (rule_pc = "done" /\ endpoint.has_data /\ IsNumber(endpoint.data.cpu_usage))
    => LET v == endpoint.data.cpu_usage.v
           cpu == FamilyAlerts(endpoint_alerts, "cpu_usage")
       IN  /\ v > 800 =>
                /\ Len(cpu) = 1
                /\ cpu[1].probability = Min(Pct(95), Pct(70) + 2 * (v - 800) * 100)
                /\ cpu[1].estimated_time
                     = (IF v > 900 THEN "2-4 horas" ELSE "6-12 horas")
           /\ (v > 700 /\ v <= 800) =>
                /\ Len(cpu) = 1
                /\ cpu[1].probability = Pct(60) + (v - 700) * 100
                /\ cpu[1].estimated_time = "12-24 horas"
           /\ v <= 700 => cpu = <<>>
           /\ \A i \in 1..Len(cpu) :
                cpu[i].probability >= 0 /\ cpu[i].probability <= Pct(100)

\* C4 witness: a reading of 85.5 % in the 80-90 band got its alert of 81 %.
C4_Witness ==
    /\ rule_pc = "done"
    /\ endpoint.data.cpu_usage = Num(855)
    /\ \E i \in 1..Len(endpoint_alerts) :
          /\ endpoint_alerts[i].metric = "cpu_usage"
          /\ endpoint_alerts[i].probability = Pct(81)
          /\ endpoint_alerts[i].estimated_time = "6-12 horas"

\* C6: an endpoint whose status is offline gets exactly one availability
\* alert, with probability 95 and estimated time "Imediato", whatever its
\* other readings are.
C6_OfflineOneAlert ==
    (rule_pc = "done" /\ endpoint.has_data
        /\ endpoint.data.status \in {"offline", "OFFLINE"})
    => LET av == FamilyAlerts(endpoint_alerts, "availability")
       IN  /\ Len(av) = 1
           /\ av[1].probability = Pct(95)
           /\ av[1].estimated_time = "Imediato"

\* C6 witness: an offline endpoint with a latency above 10 s was analysed.
C6_Witness ==
    /\ rule_pc = "done"
    /\ endpoint.data.status = "offline"
    /\ endpoint.data.response_time = Num(20000)
    /\ Len(FamilyAlerts(endpoint_alerts, "availability")) = 1

AtMostOnePerFamily ==
    /\ \A m \in Families : Len(FamilyAlerts(endpoint_alerts, m)) <= 1
    /\ \A i \in 1..Len(endpoint_alerts) : endpoint_alerts[i].metric \in Families
    /\ Len(endpoint_alerts) <= 4

CpuMemoryScenario ==
    (/\ endpoint.has_data
     /\ endpoint.data.cpu_usage = Num(850)
     /\ endpoint.data.memory_usage = Num(900)
     /\ endpoint.data.response_time = None
     /\ endpoint.data.status = "online")
    => /\ Len(endpoint_alerts) = 2
       /\ endpoint_alerts[1].metric = "cpu_usage"
       /\ endpoint_alerts[2].metric = "memory_usage"

\* C7 as amended: at most one alert per family and at most 4 per endpoint;
\* the CPU, memory and latency alerts each depend only on their own reading,
\* and the availability alert only on the status and the latency reading;
\* cpu_usage=85, memory_usage=90, no latency, online gives exactly two alerts.
C7_FamiliesIndependent ==
    rule_pc = "done"
    => /\ AtMostOnePerFamily
       /\ DependsOnlyOn("cpu_usage", {"cpu_usage"})
       /\ DependsOnlyOn("memory_usage", {"memory_usage"})
       /\ DependsOnlyOn("response_time", {"response_time"})
       /\ DependsOnlyOn("availability", {"status", "response_time"})
       /\ CpuMemoryScenario

\* C7 witness: the scenario endpoint was analysed and got its two alerts.
C7_Witness ==
    /\ rule_pc = "done"
    /\ endpoint.data.cpu_usage = Num(850)
    /\ endpoint.data.memory_usage = Num(900)
    /\ endpoint.data.response_time = None
    /\ endpoint.data.status = "online"
    /\ Len(endpoint_alerts) = 2

\* C7 as stated: every family's alert, the availability alert included, is
\* independent of the readings of the other families.
C7_Original ==
    rule_pc = "done"
    => /\ AtMostOnePerFamily
       /\ DependsOnlyOn("cpu_usage", {"cpu_usage"})
       /\ DependsOnlyOn("memory_usage", {"memory_usage"})
       /\ DependsOnlyOn("response_time", {"response_time"})
       /\ DependsOnlyOn("availability", {"status"})
       /\ CpuMemoryScenario

----------------------------------------------------------------------------
(* Properties of the analysis pass (Spec) *)

\* The alerts of probability p among a list of alerts.
WithProbability(alerts, p) ==
    LET HasP(a) == a.probability = p
    IN  SelectSeq(alerts, HasP)

IsPrefix(s, t) == Len(s) <= Len(t) /\ s = SubSeq(t, 1, Len(s))

\* C1: the returned list is ordered by non-increasing probability, keeps
\* alerts of equal probability in their candidate order, and has at most 10
\* entries.
C1_RankedTopTen ==
    pc = "done"
    => /\ \A i \in 1..Len(result) : \A j \in 1..Len(result) :
            i < j => result[i].probability >= result[j].probability
       /\ \A i \in 1..Len(result) :
            IsPrefix(WithProbability(result, result[i].probability),
                     WithProbability(candidates, result[i].probability))
       /\ Len(result) <= 10

\* C1 witness: more than 10 candidates passed the threshold, 10 came back,
\* and two different alerts of the result have the same probability.
C1_Witness ==
    /\ pc = "done"
    /\ path = "normal"
    /\ Len(FilterByThreshold(candidates, config)) > 10
    /\ Len(result) = 10
    /\ \E i \in 1..10 : \E j \in 1..10 :
          /\ i < j
          /\ result[i].probability = result[j].probability
          /\ result[i] # result[j]

\* C2: on every path, every returned alert has a probability of at least the
\* config's effective confidence_threshold.
C2_AboveThreshold ==
    pc = "done"
    => \A i \in 1..Len(result) :
          result[i].probability >= config.confidence_threshold

\* C2 witness: the exception fallback returned some exemplars and withheld
\* another for being below the threshold.
C2_Witness ==
    /\ pc = "done"
    /\ path = "exception"
    /\ result # <<>>
    /\ Len(result) < Len(candidates)

\* C3: the effective threshold of constructor argument t is 50 for t < 50,
\* 100 for t > 100 and t otherwise, and construction accepts every t.
C3_ThresholdClamp ==
    /\ pc = "new" => ENABLED CreateConfig
    /\ pc \in {"configured", "done"}
       => config.confidence_threshold =
            (IF threshold_arg < Pct(50) THEN Pct(50)
             ELSE IF threshold_arg > Pct(100) THEN Pct(100)
             ELSE threshold_arg)

\* C3 witness: a config requested below 50 was constructed, at exactly 50.
C3_Witness ==
    /\ pc = "configured"
    /\ threshold_arg = 49999
    /\ config.confidence_threshold = Pct(50)

\* The well-formed monitors of the telemetry, which are the ones a pass on
\* the normal path normalizes, in order.
WellFormedMonitors ==
    LET IsOk(m) == m.kind = "ok"
    IN  SelectSeq(infrastructure_data.monitors, IsOk)

\* C5: a monitor whose total and available memory counters are both present
\* and numeric with total > 0 (available = 0 included) is normalized with
\* memory_usage = (total - available) / total * 100, and one whose total is 0
\* with no memory_usage.
C5_MemoryUsageDerived ==
    (pc = "done" /\ path = "normal" /\ infrastructure_data.monitors # <<>>)
    => /\ Len(normalized) = Len(WellFormedMonitors)
       /\ \A i \in 1..Len(WellFormedMonitors) :
            LET total == WellFormedMonitors[i].data.memTotalReal
                avail == WellFormedMonitors[i].data.memAvailReal
                usage == normalized[i].data.memory_usage
            IN  /\ (FloatOk(total) /\ FloatOk(avail) /\ total.v > 0)
                   => /\ usage.k = "num"
                      /\ usage.v * total.v = (total.v - avail.v) * 1000
                /\ (FloatOk(total) /\ total.v = 0) => usage = None

\* C5 witness: the monitor with 8192 total and 1024 available was normalized
\* to a memory_usage of 87.5.
C5_Witness ==
    /\ pc = "done"
    /\ path = "normal"
    /\ infrastructure_data.monitors # <<>>
    /\ \E i \in 1..Len(WellFormedMonitors) :
          /\ WellFormedMonitors[i].data.memTotalReal = Num(8192)
          /\ WellFormedMonitors[i].data.memAvailReal = Num(1024)
          /\ normalized[i].data.memory_usage = Num(875)

----------------------------------------------------------------------------
(* The lexical retrieval store (app/services/rag/vector_store_simple.py).  *)
(* A similarity is an exact fraction [num, den] with den > 0.               *)

(* The documents and queries of the model *)

\* A dict is a function from its keys; {} has no key.
EmptyDict == [k \in {} |-> ""]

MaxDocs == 2

LongDocLength == 390

MidDocLength == 200

RECURSIVE Repeat(_, _)
Repeat(s, n) ==
    IF n <= 0 THEN ""
    ELSE IF n = 1 THEN s
    ELSE LET half == Repeat(s, n \div 2)
         IN  half \o half \o (IF n % 2 = 1 THEN s ELSE "")

\* The text followed by a numeric field that brings it to n characters.
Padded(text, n) == text \o " " \o Repeat("0", n - Len(text) - 1)

DocCpu == "CPU alta no servidor"

DocCpuPunctuated == "cpu, alta: no servidor!"

DocAddress == "192.168.1.1"

DocRunbook == Padded("snmp ping rede latencia", LongDocLength)

DocPing == Padded("Ping: rede", MidDocLength)

BlankContent == "  "

Knowledge == [type |-> "knowledge"]

InfrastructureData == [type |-> "infrastructure_data"]

\* The (content, metadata) pairs handed to add_document; metadata None is
\* stored as {}.
DocSamples ==
    {[content |-> DocCpu, metadata |-> Knowledge],
     [content |-> DocCpuPunctuated, metadata |-> EmptyDict],
     [content |-> DocAddress, metadata |-> InfrastructureData],
     [content |-> DocRunbook, metadata |-> Knowledge],
     [content |-> DocPing, metadata |-> InfrastructureData],
     [content |-> BlankContent, metadata |-> EmptyDict]}

SeedContent == "cpu servidor"

\* Stands for a content of the loaded JSON file that is no str (a number,
\* null): it has no .lower().
NonString == "<nonstring>"

\* Every text the store is given in the model: contents and queries.
Texts == {d.content : d \in DocSamples} \cup {SeedContent}

\* What \s of the regular expression matches and str.split() splits on.
Whitespace == {" ", "\t", "\n", "\r"}

\* The characters that [^a-záàâãéêíóôõúç\s] does not match.
KeptChars == Chars(LowerLetters) \cup Whitespace

\* re.sub(r'[^a-záàâãéêíóôõúç\s]', '', text), by halves
RECURSIVE RemoveSpecial(_)
RemoveSpecial(text) ==
    IF text = "" THEN ""
    ELSE IF Len(text) = 1 THEN (IF text \in KeptChars THEN text ELSE "")
    ELSE LET h == Len(text) \div 2
         IN  RemoveSpecial(SubSeq(text, 1, h))
               \o RemoveSpecial(SubSeq(text, h + 1, Len(text)))

\* not text.strip()
IsBlank(text) == \A i \in 1..Len(text) : CharAt(text, i) \in Whitespace

\* set(text.split()): the maximal runs of non-whitespace characters
Words(text) ==
    LET n == Len(text)
        IsSpace(i) == CharAt(text, i) \in Whitespace
        Starts == {i \in 1..n : ~IsSpace(i) /\ (i = 1 \/ IsSpace(i - 1))}
        EndOf(i) == CHOOSE j \in i..n :
                        /\ \A k \in i..j : ~IsSpace(k)
                        /\ j = n \/ IsSpace(j + 1)
    IN  {SubSeq(text, i, EndOf(i)) : i \in Starts}

important_words ==
    {"snmp", "ping", "tcp", "udp", "http", "https", "ssh", "ftp",
     "servidor", "rede", "switch", "router", "firewall", "load", "balancer",
     "cpu", "memoria", "disco", "bandwidth", "latencia", "throughput",
     "monitor", "alert", "threshold", "metric", "log", "error", "warning"}

Ratio(n, d) == [num |-> n, den |-> d]

RatioLess(a, b) == a.num * b.den < b.num * a.den

RatioEqual(a, b) == a.num * b.den = b.num * a.den

RatioMin(a, b) == IF RatioLess(b, a) THEN b ELSE a

\* The uncapped score: Jaccard plus 0.1 per shared important word.
JaccardWithBonus(words1, words2) ==
    LET intersection == words1 \cap words2
        union == words1 \cup words2
        common_important == intersection \cap important_words
    IN  Ratio(10 * Cardinality(intersection)
                + Cardinality(common_important) * Cardinality(union),
              10 * Cardinality(union))

\* set(re.sub(r'[^a-záàâãéêíóôõúç\s]', '', text.lower()).split())
CleanWords(text) == Words(RemoveSpecial(Lower(text)))

\* CleanWords tabulated over the texts of the model.
TokensOf == [text \in Texts |-> CleanWords(text)]

\* The variant that returns the score without min(similarity, 1.0).
_simple_similarity_Uncapped(text1, text2) ==
    LET words1 == TokensOf[text1]
        words2 == TokensOf[text2]
    IN  IF words1 = {} \/ words2 = {} THEN Ratio(0, 1)
        ELSE JaccardWithBonus(words1, words2)

_simple_similarity(text1, text2) ==
    LET words1 == TokensOf[text1]
        words2 == TokensOf[text2]
    IN  IF words1 = {} \/ words2 = {} THEN Ratio(0, 1)
        ELSE RatioMin(JaccardWithBonus(words1, words2), Ratio(1, 1))

\* similarity > 0.1
AboveCutoff(similarity) == RatioLess(Ratio(1, 10), similarity)

\* _generate_id: the digest of the content joined to the time of the call.
_generate_id(content, time) == [md5 |-> content, timestamp |-> time]

\* all(metadata.get(k) == v for k, v in filter_metadata.items()), which an
\* absent or empty filter does not apply
MatchesFilter(metadata, filter_metadata) ==
    \A k \in DOMAIN filter_metadata :
        k \in DOMAIN metadata /\ metadata[k] = filter_metadata[k]

\* list.sort(key=similarity, reverse=True) is stable: a document goes
\* behind every document whose similarity is at least its own.
InsertBySimilarity(sorted, doc) ==
    LET Behind == {i \in 1..Len(sorted) :
                     ~RatioLess(sorted[i].similarity, doc.similarity)}
        k == IF Behind = {} THEN 0
             ELSE CHOOSE i \in Behind : \A j \in Behind : j <= i
    IN  SubSeq(sorted, 1, k) \o <<doc>> \o SubSeq(sorted, k + 1, Len(sorted))

RECURSIVE SortBySimilarity(_)
SortBySimilarity(docs) ==
    IF docs = <<>> THEN <<>>
    ELSE InsertBySimilarity(SortBySimilarity(SubSeq(docs, 1, Len(docs) - 1)),
                            docs[Len(docs)])

\* seq[:n] for n >= 0
Take(seq, n) == SubSeq(seq, 1, Min(n, Len(seq)))

\* The documents of the corpus scored against the query, in corpus order,
\* those at or below the cutoff left out.
ScoredDocs(kb, query, filter_metadata) ==
    LET Score(item) == [id |-> item.id, content |-> item.content,
                        metadata |-> item.metadata,
                        similarity |-> _simple_similarity(query, item.content)]
        Admitted(item) == MatchesFilter(item.metadata, filter_metadata)
        admitted == SelectSeq(kb, Admitted)
        scored == [i \in 1..Len(admitted) |-> Score(admitted[i])]
        Kept(doc) == AboveCutoff(doc.similarity)
    IN  SelectSeq(scored, Kept)

\* The loop over the knowledge base raises at the first item the filter
\* admits whose content is no str (text2.lower() in _simple_similarity).
SearchRaises(kb, filter_metadata) ==
    \E i \in 1..Len(kb) :
        /\ MatchesFilter(kb[i].metadata, filter_metadata)
        /\ kb[i].content = NonString

\* The variant of search_similar that does not sort.
search_similar_Unsorted(kb, query, n_results, filter_metadata) ==
    IF SearchRaises(kb, filter_metadata) THEN <<>>
    ELSE Take(ScoredDocs(kb, query, filter_metadata), n_results)

search_similar(kb, query, n_results, filter_metadata) ==
    IF SearchRaises(kb, filter_metadata) THEN <<>>
    ELSE Take(SortBySimilarity(ScoredDocs(kb, query, filter_metadata)),
              n_results)

MinUsefulSpace == 100

Ellipsis == "..."

\* The loop of get_relevant_context over top_docs from position i on:
\* whole documents while they fit, then at most one truncated prefix.
RECURSIVE BuildContextParts(_, _, _, _, _)
BuildContextParts(top_docs, i, context_parts, current_length, max_context_length) ==
    IF i > Len(top_docs) THEN context_parts
    ELSE LET content == top_docs[i].content
             remaining_space == max_context_length - current_length
         IN  IF current_length + Len(content) <= max_context_length
             THEN BuildContextParts(top_docs, i + 1,
                                    Append(context_parts, content),
                                    current_length + Len(content),
                                    max_context_length)
             ELSE IF remaining_space > MinUsefulSpace
             THEN Append(context_parts,
                         SubSeq(content, 1, Min(remaining_space, Len(content)))
                           \o Ellipsis)
             ELSE context_parts

ContextSeparator == "\n\n---\n\n"

\* sep.join(parts)
RECURSIVE Join(_, _)
Join(sep, parts) ==
    IF parts = <<>> THEN ""
    ELSE IF Len(parts) = 1 THEN parts[1]
    ELSE parts[1] \o sep \o Join(sep, Tail(parts))

NoContextFound ==
    "Nenhum contexto relevante encontrado na base de conhecimento."

\* What the except clause of get_relevant_context returns.
ContextError == "Erro ao buscar contexto na base de conhecimento."

\* The lexical store's get_relevant_context: a string.
get_relevant_context(kb, query, max_context_length, n_results) ==
    IF IsBlank(query) THEN ""
    ELSE IF SearchRaises(kb, EmptyDict) THEN ContextError
    ELSE LET top_docs == Take(SortBySimilarity(ScoredDocs(kb, query, EmptyDict)),
                              n_results)
         IN  IF top_docs = <<>> THEN NoContextFound
             ELSE Join(ContextSeparator,
                       BuildContextParts(top_docs, 1, <<>>, 0,
                                         max_context_length))

----------------------------------------------------------------------------
(* The embedding store (app/services/rag/vector_store.py).  The embedding  *)
(* model and the ChromaDB collection are collaborators: what a query ranks  *)
(* highest is theirs to decide, so a search is any ranking of distinct      *)
(* documents of the collection, or nothing when the search failed.          *)

Rankings(collection, n_results) ==
    LET size == Min(n_results, Len(collection))
        Picks == {r \in [1..size -> 1..Len(collection)] :
                    \A a, b \in 1..size : a # b => r[a] # r[b]}
    IN  {[i \in 1..size |-> collection[r[i]]] : r \in Picks}

\* search_similar of the embedding store: the ranked documents, or [] from
\* its except clause.
chroma_search_similar(collection, n_results) ==
    Rankings(collection, n_results) \cup {<<>>}

\* The loop of the embedding store's get_relevant_context from result i on.
RECURSIVE BuildContextItems(_, _, _, _, _)
BuildContextItems(results, i, context_items, total_length, max_context_length) ==
    IF i > Len(results) THEN context_items
    ELSE LET content == results[i].content
             remaining_length == max_context_length - total_length
         IN  IF total_length + Len(content) > max_context_length
             THEN IF remaining_length > MinUsefulSpace
                  THEN Append(context_items,
                              SubSeq(content, 1,
                                     Min(remaining_length, Len(content)))
                                \o Ellipsis)
                  ELSE context_items
             ELSE BuildContextItems(results, i + 1,
                                    Append(context_items, content),
                                    total_length + Len(content),
                                    max_context_length)

\* The variant of the loop without its break: after an overflow it goes on
\* to the next result.
RECURSIVE BuildContextItems_NoBreak(_, _, _, _, _)
BuildContextItems_NoBreak(results, i, context_items, total_length, max_context_length) ==
    IF i > Len(results) THEN context_items
    ELSE LET content == results[i].content
             remaining_length == max_context_length - total_length
         IN  IF total_length + Len(content) > max_context_length
             THEN BuildContextItems_NoBreak(results, i + 1,
                      IF remaining_length > MinUsefulSpace
                      THEN Append(context_items,
                                  SubSeq(content, 1,
                                         Min(remaining_length, Len(content)))
                                    \o Ellipsis)
                      ELSE context_items,
                      total_length, max_context_length)
             ELSE BuildContextItems_NoBreak(results, i + 1,
                                            Append(context_items, content),
                                            total_length + Len(content),
                                            max_context_length)

chroma_get_relevant_context_NoBreak(results, max_context_length) ==
    BuildContextItems_NoBreak(results, 1, <<>>, 0, max_context_length)

\* The embedding store's get_relevant_context on the results of its search:
\* a list of strings.
chroma_get_relevant_context(results, max_context_length) ==
    BuildContextItems(results, 1, <<>>, 0, max_context_length)

----------------------------------------------------------------------------
(* The retrieval store under calls: SpecStore starts from a loaded corpus  *)
(* and applies add_document, search_similar and get_relevant_context of the *)
(* lexical store, and get_relevant_context of the embedding store on the    *)
(* same documents.                                                          *)

Queries == {d.content : d \in DocSamples}

ResultCounts == {1, 3}

ContextBudgets == {100, 150, 500}

Filters == {EmptyDict, Knowledge}

\* What load_knowledge_base found in data/knowledge_base.json.
LoadedCorpora ==
    {<<>>,
     <<[id |-> _generate_id(SeedContent, 0), content |-> SeedContent,
        metadata |-> Knowledge, timestamp |-> 0]>>,
     <<[id |-> _generate_id(SeedContent, 0), content |-> SeedContent,
        metadata |-> Knowledge, timestamp |-> 0],
       [id |-> _generate_id(NonString, 0), content |-> NonString,
        metadata |-> InfrastructureData, timestamp |-> 0]>>}

NoDocument == [kind |-> "none"]

\* The document that the last call added, if it was an add_document that
\* returned.
LastAdded ==
    IF store_call.op = "add_document" /\ store_return.kind = "id"
    THEN [kind |-> "doc", doc |-> knowledge_base[Len(knowledge_base)]]
    ELSE NoDocument

InitStore ==
    /\ GeminiIdle
    /\ ClientIdle
    /\ RulesIdle
    /\ PassIdle
    /\ RagIdle
    /\ config = NoConfig
    /\ knowledge_base \in LoadedCorpora
    /\ now = 1
    /\ store_call = [op |-> "__init__"]
    /\ store_return = [kind |-> "none"]
    /\ just_added = NoDocument

\* await store.add_document(content, metadata)
AddDocument ==
    \E sample \in DocSamples :
        /\ store_call' = [op |-> "add_document", content |-> sample.content,
                          metadata |-> sample.metadata]
        /\ just_added' = LastAdded
        /\ IF IsBlank(sample.content)
           THEN /\ store_return' = [kind |-> "ValueError"]
                /\ UNCHANGED <<knowledge_base, now>>
           ELSE /\ Len(knowledge_base) < MaxDocs
                /\ LET document_id == _generate_id(sample.content, now)
                       doc == [id |-> document_id, content |-> sample.content,
                               metadata |-> sample.metadata, timestamp |-> now]
                   IN  /\ knowledge_base' = Append(knowledge_base, doc)
                       /\ store_return' = [kind |-> "id", value |-> document_id]
                /\ now' = now + 1
        /\ UNCHANGED <<config, rule_state, pass_state, rag_state, gemini_state,
                   client_state>>

\* await store.search_similar(query, n_results, filter_metadata)
SearchSimilar ==
    \E query \in Queries, n_results \in ResultCounts, filter_metadata \in Filters :
        /\ store_call' = [op |-> "search_similar", query |-> query,
                          n_results |-> n_results,
                          filter_metadata |-> filter_metadata]
        /\ just_added' = LastAdded
        /\ store_return' =
             [kind |-> "results",
              value |-> search_similar(knowledge_base, query, n_results,
                                       filter_metadata)]
        /\ UNCHANGED <<knowledge_base, now, config, rule_state, pass_state,
                       rag_state, gemini_state,
                   client_state>>

\* await store.get_relevant_context(query, max_context_length, n_results)
\* on the lexical store
GetRelevantContext ==
    \E query \in Queries, max_context_length \in ContextBudgets, n_results \in ResultCounts :
        /\ store_call' = [op |-> "get_relevant_context", query |-> query,
                          max_context_length |-> max_context_length,
                          n_results |-> n_results]
        /\ just_added' = LastAdded
        /\ store_return' =
             [kind |-> "text",
              value |-> get_relevant_context(knowledge_base, query,
                                             max_context_length, n_results)]
        /\ UNCHANGED <<knowledge_base, now, config, rule_state, pass_state,
                       rag_state, gemini_state,
                   client_state>>

\* await store.get_relevant_context(query, max_context_length, n_results)
\* on the embedding store holding the same documents (a collection holds
\* str documents only)
ChromaGetRelevantContext ==
    \E max_context_length \in ContextBudgets, n_results \in ResultCounts :
        \E results \in chroma_search_similar(knowledge_base, n_results) :
            /\ ~SearchRaises(knowledge_base, EmptyDict)
            /\ store_call' = [op |-> "chroma_get_relevant_context",
                              max_context_length |-> max_context_length,
                              n_results |-> n_results, results |-> results]
            /\ just_added' = LastAdded
            /\ store_return' =
                 [kind |-> "items",
                  value |-> chroma_get_relevant_context(results,
                                                        max_context_length)]
            /\ UNCHANGED <<knowledge_base, now, config, rule_state, pass_state,
                           rag_state, gemini_state,
                   client_state>>

NextStore ==
    \/ AddDocument
    \/ SearchSimilar
    \/ GetRelevantContext
    \/ ChromaGetRelevantContext

SpecStore == InitStore /\ [][NextStore]_vars

----------------------------------------------------------------------------
(* Properties of the retrieval store (SpecStore) *)

RECURSIVE TotalLength(_)
TotalLength(items) ==
    IF items = <<>> THEN 0 ELSE Len(Head(items)) + TotalLength(Tail(items))

\* The number of characters of the context the last call returned.
ReturnedContextLength ==
    IF store_return.kind = "text" THEN Len(store_return.value)
    ELSE TotalLength(store_return.value)

ContextReturned ==
    store_call.op \in {"get_relevant_context", "chroma_get_relevant_context"}

\* Some document of the corpus is longer than the chunk and the chunk is a
\* prefix of it followed by the ellipsis.
IsTruncatedPrefix(chunk) ==
    \E i \in 1..Len(knowledge_base) :
        LET content == knowledge_base[i].content
            kept == Len(chunk) - Len(Ellipsis)
        IN  /\ kept > 0
            /\ kept < Len(content)
            /\ chunk = SubSeq(content, 1, kept) \o Ellipsis

\* C8: whatever the corpus, the query, the budget and the number of results,
\* the context that get_relevant_context returns, on the lexical store and
\* on the embedding store, has a combined length of at most
\* max_context_length characters, a truncated last chunk included.
C8_ContextWithinBudget ==
    ContextReturned => ReturnedContextLength <= store_call.max_context_length

\* The embedding store returned a whole document followed by a truncated
\* prefix of another, under the budget of 500 characters and k = 3.
C8_Witness ==
    /\ store_call.op = "chroma_get_relevant_context"
    /\ store_call.max_context_length = 500
    /\ store_call.n_results = 3
    /\ Len(store_return.value) = 2
    /\ IsTruncatedPrefix(store_return.value[2])

\* search_similar(content, n_results=1) was called right after the
\* add_document(content, metadata) that returned.
RoundTrip ==
    /\ store_call.op = "search_similar"
    /\ just_added.kind = "doc"
    /\ store_call.query = just_added.doc.content
    /\ store_call.n_results = 1
    /\ DOMAIN store_call.filter_metadata = {}

\* C9: add_document(content, metadata) immediately followed by
\* search_similar(content, n_results=1) returns one result above the 0.1
\* cutoff, which is the document just added or a document that ties with
\* it on similarity.
C9_RoundTrip ==
    RoundTrip =>
        LET results == store_return.value
            added == just_added.doc
        IN  /\ Len(results) = 1
            /\ AboveCutoff(results[1].similarity)
            /\ \/ results[1].id = added.id
               \/ RatioEqual(results[1].similarity,
                             _simple_similarity(added.content, added.content))

\* The round trip was made with a content that has no letter, on a corpus
\* that already held a document.
C9_Witness ==
    /\ RoundTrip
    /\ Len(knowledge_base) = 2
    /\ CleanWords(just_added.doc.content) = {}

----------------------------------------------------------------------------
(* The retrieval orchestrator (app/services/rag/rag_service.py) and the    *)
(* generation service it calls (app/services/gemini/gemini_service.py).     *)
(* A task is [st |-> "absent"], [st |-> "pending"], [st |-> "raised"] or    *)
(* [st |-> "returned", value |-> v].  A confidence is held in tenths.       *)

Pending == [st |-> "pending"]

Absent == [st |-> "absent"]

Raised == [st |-> "raised"]

Returned(v) == [st |-> "returned", value |-> v]

\* What each fetch of the client yields when it succeeds.
OverviewData == [total_endpoints |-> 3]

AlertsData == <<"alert">>

MetricsData == <<"metrics">>

\* The variant of the join that gives up the whole dict when a fetch failed.
_get_live_infrastructure_data_AllOrNothing(done) ==
    IF \E f \in DOMAIN done : done[f] # "ok" THEN None
    ELSE [overview |-> OverviewData, active_alerts |-> AlertsData,
          recent_metrics |-> MetricsData]

\* The dict that _get_live_infrastructure_data builds from the three joined
\* results, or None from its except clause when a recent-metrics item has
\* no to_dict().
_get_live_infrastructure_data(done) ==
    IF done.metrics = "malformed" THEN None
    ELSE [overview |-> IF done.overview = "ok" THEN OverviewData ELSE EmptyDict,
          active_alerts |-> IF done.alerts = "ok" THEN AlertsData ELSE <<>>,
          recent_metrics |-> IF done.metrics = "ok" THEN MetricsData ELSE <<>>]

\* The variant of the join that lets a failed live fetch abort the query.
AfterGather_AbortOnLiveFailure(context_result, live_result) ==
    IF live_result.st = "absent"
    THEN IF context_result.st = "raised"
         THEN [aborted |-> TRUE, context |-> <<>>, live_data |-> None]
         ELSE [aborted |-> FALSE, context |-> context_result.value,
               live_data |-> None]
    ELSE [aborted |-> live_result.st = "raised" \/ live_result.value = None,
          context |-> IF context_result.st = "raised" THEN <<>>
                      ELSE context_result.value,
          live_data |-> IF live_result.st = "raised" THEN None
                        ELSE live_result.value]

\* What process_query holds after the join of its tasks: without a live
\* task the context lookup is awaited bare, so its exception leaves the try
\* block; with one, either exception is replaced by the empty value.
AfterGather(context_result, live_result) ==
    IF live_result.st = "absent"
    THEN IF context_result.st = "raised"
         THEN [aborted |-> TRUE, context |-> <<>>, live_data |-> None]
         ELSE [aborted |-> FALSE, context |-> context_result.value,
               live_data |-> None]
    ELSE [aborted |-> FALSE,
          context |-> IF context_result.st = "raised" THEN <<>>
                      ELSE context_result.value,
          live_data |-> IF live_result.st = "raised" THEN None
                        ELSE live_result.value]

\* The AnalysisResponse of process_query's own except clause.
QueryErrorResponse ==
    [answer |-> "Desculpe, ocorreu um erro ao processar sua solicitação. Por favor, tente novamente.",
     confidence |-> 0,
     sources |-> <<>>,
     suggestions |-> <<"Tente reformular a pergunta",
                       "Verifique a conectividade">>,
     has_infrastructure_data |-> FALSE,
     context_items |-> 0]

\* The AnalysisResponse of generate_response's except clause.
GenerationFallback ==
    [answer |-> "Desculpe, ocorreu um erro ao processar sua solicitação. Por favor, tente novamente ou reformule sua pergunta.",
     confidence |-> 0,
     sources |-> <<>>,
     suggestions |-> <<"Tente reformular a pergunta",
                       "Verifique a conectividade",
                       "Consulte os logs do sistema">>,
     has_infrastructure_data |-> FALSE,
     context_items |-> 0]

DefaultSuggestions ==
    <<"Ver métricas detalhadas", "Analisar logs do sistema",
      "Verificar alertas recentes", "Revisar configurações">>

\* _calculate_confidence, in tenths: the base, 5 per context item up to 20,
\* a tenth of the word count up to 20 above 50 words, 10 for a keyword,
\* capped at 95.
_calculate_confidence(reply, context) ==
    Min(500 + Min(Len(context) * 50, 200)
            + (IF reply.word_count > 50 THEN Min(reply.word_count, 200) ELSE 0)
            + (IF reply.keyword THEN 100 ELSE 0),
        950)

\* The AnalysisResponse built from a reply text (lines 155-172).
GeneratedResponse(reply, retrieved_context, live_data) ==
    [answer |-> "text",
     confidence |-> _calculate_confidence(reply, retrieved_context),
     sources |-> <<"Gemini", "InfraWatch Data">>,
     suggestions |-> IF reply.advice = <<>> THEN DefaultSuggestions
                     ELSE Take(reply.advice, 4),
     has_infrastructure_data |-> live_data # None,
     context_items |-> Len(retrieved_context)]

\* How the Gemini request can end without a text: the status is not 200,
\* the request times out, the body has no candidate text (all three raise
\* in _make_gemini_request); or with a text that is empty or blank.
RequestFailures == {"error_status", "timeout", "malformed"}

NoAnswer == {"empty", "blank"}

\* The variant of generate_response that accepts an empty or blank text.
generate_response_AcceptsBlank(reply, retrieved_context, live_data) ==
    IF reply.kind \in RequestFailures THEN GenerationFallback
    ELSE GeneratedResponse(reply, retrieved_context, live_data)

\* generate_response on what the Gemini request yielded: a request that
\* raised and a text that is empty or blank (line 152-153 raises) both end
\* in the except clause.
generate_response(reply, retrieved_context, live_data) ==
    IF reply.kind \in RequestFailures \cup NoAnswer THEN GenerationFallback
    ELSE GeneratedResponse(reply, retrieved_context, live_data)

----------------------------------------------------------------------------
(* One call of process_query: SpecRag draws the arguments and the corpus,  *)
(* the context lookup and the three fetches of the live task complete in    *)
(* any order, each with any outcome, and the join follows them.             *)

RagQueries == {"cpu alta no servidor"}

RagCalls ==
    [query : RagQueries, include_live_data : BOOLEAN, has_client : BOOLEAN]

RagCorpora ==
    {<<>>,
     <<[id |-> _generate_id(DocCpu, 0), content |-> DocCpu,
        metadata |-> Knowledge, timestamp |-> 0],
       [id |-> _generate_id(DocPing, 0), content |-> DocPing,
        metadata |-> Knowledge, timestamp |-> 0]>>}

\* max_context_length and n_results of the lookup made by process_query
RagContextLength == 1500

RagResults == 3

\* What the Gemini request yields.
Replies ==
    {[kind |-> k, word_count |-> 0, keyword |-> FALSE, advice |-> <<>>] :
        k \in RequestFailures \cup NoAnswer} \cup
    {
     [kind |-> "text", word_count |-> 12, keyword |-> FALSE, advice |-> <<>>],
     [kind |-> "text", word_count |-> 120, keyword |-> TRUE,
      advice |-> <<"Recomendo reiniciar o servico">>],
     [kind |-> "text", word_count |-> 400, keyword |-> TRUE, advice |-> <<>>]}

NotCalled == [called |-> FALSE]

NoResponse == [kind |-> "none"]

InitRag ==
    /\ GeminiIdle
    /\ ClientIdle
    /\ RulesIdle
    /\ PassIdle
    /\ config = NoConfig
    /\ knowledge_base \in RagCorpora
    /\ now = 1
    /\ store_call = [op |-> "__init__"]
    /\ store_return = [kind |-> "none"]
    /\ just_added = NoDocument
    /\ rag_call \in RagCalls
    /\ context_task = Absent
    /\ live_data_task = Absent
    /\ fetches = [overview |-> "absent", alerts |-> "absent", metrics |-> "absent"]
    /\ generate_call = NotCalled
    /\ response = NoResponse
    /\ rag_pc = "called"

\* Lines 36-45: the context lookup is created, and the live task when live
\* data is asked for and a client is given.
CreateTasks ==
    /\ rag_pc = "called"
    /\ context_task' = Pending
    /\ IF rag_call.include_live_data /\ rag_call.has_client
       THEN /\ live_data_task' = Pending
            /\ fetches' = [overview |-> "pending", alerts |-> "pending",
                           metrics |-> "pending"]
       ELSE UNCHANGED <<live_data_task, fetches>>
    /\ rag_pc' = "gather"
    /\ UNCHANGED <<config, rule_state, pass_state, store_state, gemini_state,
                   client_state, rag_call,
                   generate_call, response>>

\* The context lookup ends: with the items the store assembled from what
\* its search ranked, or with an exception.
ContextLookup ==
    /\ rag_pc = "gather"
    /\ context_task = Pending
    /\ \/ \E results \in chroma_search_similar(knowledge_base, RagResults) :
            context_task' =
                Returned(chroma_get_relevant_context(results, RagContextLength))
       \/ context_task' = Raised
    /\ UNCHANGED <<config, rule_state, pass_state, store_state, gemini_state,
                   client_state, rag_call,
                   live_data_task, fetches, generate_call, response, rag_pc>>

\* infrawatch_client.get_infrastructure_overview() ends.
FetchOverview ==
    /\ rag_pc = "gather"
    /\ fetches.overview = "pending"
    /\ \E outcome \in {"ok", "failed"} :
           fetches' = [fetches EXCEPT !.overview = outcome]
    /\ UNCHANGED <<config, rule_state, pass_state, store_state, gemini_state,
                   client_state, rag_call,
                   context_task, live_data_task, generate_call, response,
                   rag_pc>>

\* infrawatch_client.get_alerts(status="active", limit=10) ends.
FetchAlerts ==
    /\ rag_pc = "gather"
    /\ fetches.alerts = "pending"
    /\ \E outcome \in {"ok", "failed"} :
           fetches' = [fetches EXCEPT !.alerts = outcome]
    /\ UNCHANGED <<config, rule_state, pass_state, store_state, gemini_state,
                   client_state, rag_call,
                   context_task, live_data_task, generate_call, response,
                   rag_pc>>

\* infrawatch_client.get_recent_metrics(hours=1) ends; "malformed" is a
\* list whose items have no to_dict().
FetchMetrics ==
    /\ rag_pc = "gather"
    /\ fetches.metrics = "pending"
    /\ \E outcome \in {"ok", "failed", "malformed"} :
           fetches' = [fetches EXCEPT !.metrics = outcome]
    /\ UNCHANGED <<config, rule_state, pass_state, store_state, gemini_state,
                   client_state, rag_call,
                   context_task, live_data_task, generate_call, response,
                   rag_pc>>

\* Lines 95-112: the three fetches are joined and the live task returns.
JoinFetches ==
    /\ rag_pc = "gather"
    /\ live_data_task = Pending
    /\ \A f \in DOMAIN fetches : fetches[f] # "pending"
    /\ live_data_task' = Returned(_get_live_infrastructure_data(fetches))
    /\ UNCHANGED <<config, rule_state, pass_state, store_state, gemini_state,
                   client_state, rag_call,
                   context_task, fetches, generate_call, response, rag_pc>>

\* Lines 48-71 and 76-84: the tasks are joined; generate_response is called
\* with what they left, or the except clause answers.
JoinTasks ==
    /\ rag_pc = "gather"
    /\ context_task # Pending
    /\ live_data_task # Pending
    /\ LET joined == AfterGather(context_task, live_data_task)
       IN  IF joined.aborted
           THEN /\ response' = QueryErrorResponse
                /\ rag_pc' = "returned"
                /\ UNCHANGED generate_call
           ELSE /\ generate_call' =
                      [called |-> TRUE, retrieved_context |-> joined.context,
                       infrastructure_data |-> joined.live_data,
                       reply |-> "none", returned |-> NoResponse]
                /\ rag_pc' = "generating"
                /\ UNCHANGED response
    /\ UNCHANGED <<config, rule_state, pass_state, store_state, gemini_state,
                   client_state, rag_call,
                   context_task, live_data_task, fetches>>

\* Lines 66-74: generate_response returns and process_query returns it.
Generate ==
    /\ rag_pc = "generating"
    /\ \E reply \in Replies :
           LET answer == generate_response(reply,
                                           generate_call.retrieved_context,
                                           generate_call.infrastructure_data)
           IN  /\ generate_call' = [generate_call EXCEPT !.returned = answer,
                                                          !.reply = reply.kind]
               /\ response' = answer
    /\ rag_pc' = "returned"
    /\ UNCHANGED <<config, rule_state, pass_state, store_state, gemini_state,
                   client_state, rag_call,
                   context_task, live_data_task, fetches>>

NextRag ==
    \/ CreateTasks
    \/ ContextLookup
    \/ FetchOverview
    \/ FetchAlerts
    \/ FetchMetrics
    \/ JoinFetches
    \/ JoinTasks
    \/ Generate

SpecRag == InitRag /\ [][NextRag]_vars

----------------------------------------------------------------------------
(* Properties of the orchestrator (SpecRag) *)

\* The live task ended without data: it raised, or its own except clause
\* made it return None.
LiveFetchFailed ==
    \/ live_data_task.st = "raised"
    \/ live_data_task.st = "returned" /\ live_data_task.value = None

\* C10: when process_query has returned, the live-telemetry fetch failed
\* and the context lookup succeeded, generate_response was invoked with the
\* retrieved context and with infrastructure_data None, and what
\* process_query returned is the AnalysisResponse that call returned.
C10_LiveFailureStillGenerates ==
    (rag_pc = "returned" /\ LiveFetchFailed /\ context_task.st = "returned")
        => /\ generate_call.called
           /\ generate_call.retrieved_context = context_task.value
           /\ generate_call.infrastructure_data = None
           /\ response = generate_call.returned
           /\ response # QueryErrorResponse

\* process_query returned a generated answer built on two context items
\* after its live fetch failed.
C10_Witness ==
    /\ rag_pc = "returned"
    /\ LiveFetchFailed
    /\ context_task.st = "returned"
    /\ Len(context_task.value) = 2
    /\ generate_call.called
    /\ response.answer = "text"
    /\ response.context_items = 2
    /\ ~response.has_infrastructure_data

----------------------------------------------------------------------------
(* Further properties of the analysis pass (Spec) *)

ExemplarEndpoints == {"Server-01", "Server-02", "Router-01"}

\* The exemplars among a list of alerts, in the order of the list.
ExemplarsIn(alerts) ==
    LET IsExemplar(a) == a.endpoint \in ExemplarEndpoints
    IN  SelectSeq(alerts, IsExemplar)

\* The exemplars at or above the threshold, in the order of the source.
ExemplarsAbove(cfg) ==
    LET Passes(a) == a.probability >= cfg.confidence_threshold
    IN  SelectSeq(<<[endpoint |-> "Server-01", metric |-> "cpu_usage",
                     predicted_issue |-> "sample_cpu", probability |-> Pct(78),
                     estimated_time |-> "4-8 horas",
                     confidence_threshold |-> cfg.confidence_threshold],
                    [endpoint |-> "Server-02", metric |-> "memory_usage",
                     predicted_issue |-> "sample_memory", probability |-> Pct(72),
                     estimated_time |-> "6-12 horas",
                     confidence_threshold |-> cfg.confidence_threshold],
                    [endpoint |-> "Router-01", metric |-> "network_latency",
                     predicted_issue |-> "sample_network", probability |-> Pct(68),
                     estimated_time |-> "2-6 horas",
                     confidence_threshold |-> cfg.confidence_threshold]>>,
                  Passes)

\* C11: a pass over a telemetry mapping returns exemplar alerts exactly when
\* fewer than 3 alerts were derived from the data, and then every exemplar
\* at or above the threshold; when nothing was derived, and on the two
\* fallback paths, what it returns is exactly those exemplars, in the order
\* Server-01, Server-02, Router-01.
C11_ExemplarPadding ==
    pc = "done" =>
        IF path = "normal"
        THEN LET derived == DerivedAlerts(infrastructure_data, config)
             IN  /\ Len(derived) >= 3 => ExemplarsIn(result) = <<>>
                 /\ Len(derived) < 3 =>
                        ExemplarsIn(result) = ExemplarsAbove(config)
                 /\ derived = <<>> => result = ExemplarsAbove(config)
        ELSE result = ExemplarsAbove(config)

\* A pass that derived one or two alerts and returned them with all three
\* exemplars.
C11_Witness ==
    /\ pc = "done"
    /\ path = "normal"
    /\ Len(DerivedAlerts(infrastructure_data, config)) \in {1, 2}
    /\ Len(ExemplarsIn(result)) = 3
    /\ Len(result) > 3

\* The fields of the alerts other than id and created_at.
Contents(alerts) == [i \in 1..Len(alerts) |-> alerts[i].alert]

\* C12: a second call of analyze_predictive_patterns with the same telemetry
\* and the same config returns the same alerts in the same order with the
\* same field values, id and created_at included.
C12_Deterministic ==
    pc = "repeated" => repeated = stamped

\* Two identical calls that returned the same alerts in the same order,
\* three of them at least.
C12_Witness ==
    /\ pc = "repeated"
    /\ Len(stamped) >= 3
    /\ Contents(repeated) = Contents(stamped)

AlertFields ==
    {"endpoint", "metric", "predicted_issue", "probability", "estimated_time",
     "confidence_threshold"}

AlertMetrics ==
    {"cpu_usage", "memory_usage", "response_time", "network_latency",
     "availability", "network_health", "alert_frequency"}

\* A list of at most 10 PredictiveAlert built under the config.
WellFormedAlerts(alerts, cfg) ==
    /\ Len(alerts) <= MaxReturned
    /\ \A i \in 1..Len(alerts) :
        /\ DOMAIN alerts[i] = AlertFields
        /\ alerts[i].metric \in AlertMetrics
        /\ alerts[i].probability \in 0..Pct(100)
        /\ alerts[i].confidence_threshold = cfg.confidence_threshold

\* C13: analyze_predictive_patterns never raises: whatever the telemetry,
\* absent, empty, partial or malformed, the call returns, and what it
\* returns is a well-formed list of PredictiveAlert.
C13_NeverRaises ==
    /\ pc # "raised"
    /\ pc = "configured" => ~PassRaises(infrastructure_data, config)
    /\ pc = "done" => WellFormedAlerts(result, config)

\* A pass over telemetry with a monitor record that is no mapping returned
\* alerts.
C13_Witness ==
    /\ pc = "done"
    /\ path = "exception"
    /\ \E i \in 1..Len(infrastructure_data.monitors) :
           infrastructure_data.monitors[i].kind = "not_mapping"
    /\ result # <<>>

\* C16: with the default confidence_threshold of 70, a pass never returns an
\* empty list, whatever the telemetry is.
C16_NeverEmptyAtDefault ==
    (pc = "done" /\ config.confidence_threshold = Pct(70)) => result # <<>>

\* C16 witness: a pass at threshold 70 over per-endpoint records that derived
\* at least three alerts, so that no exemplar was added.
C16_Witness ==
    /\ pc = "done"
    /\ config.confidence_threshold = Pct(70)
    /\ path = "normal"
    /\ infrastructure_data.endpoints # <<>>
    /\ Len(DerivedAlerts(infrastructure_data, config)) >= 3
    /\ candidates = DerivedAlerts(infrastructure_data, config)

\* The alert_frequency alerts among a list of alerts, in order.
FrequencyAlerts(alerts) ==
    LET IsFrequency(a) == a.metric = "alert_frequency"
    IN  SelectSeq(alerts, IsFrequency)

\* The identifiers of the existing alert records, and the number of records
\* of one identifier.
RecordIds == {infrastructure_data.alerts[i] :
                 i \in 1..Len(infrastructure_data.alerts)}

RecordsOf(id) ==
    Cardinality({i \in 1..Len(infrastructure_data.alerts) :
                    infrastructure_data.alerts[i] = id})

\* What the pass derives from the same telemetry without its alert records.
RuleResults ==
    DerivedAlerts([infrastructure_data EXCEPT !.alerts = <<>>], config)

\* C17: the pattern detector emits exactly one alert_frequency alert of
\* probability 80 for each identifier with at least 3 existing alert records
\* and none for an identifier with fewer; these alerts follow the results of
\* the metric rules, which are the same as without any alert record.
C17_PatternAlerts ==
    (pc = "done" /\ path = "normal")
    => LET freq == FrequencyAlerts(candidates)
           rules == RuleResults
       IN  /\ \A id \in RecordIds :
                Cardinality({i \in 1..Len(freq) : freq[i].endpoint = id})
                  = (IF RecordsOf(id) >= 3 THEN 1 ELSE 0)
           /\ \A i \in 1..Len(freq) :
                /\ freq[i].endpoint \in RecordIds
                /\ freq[i].probability = Pct(80)
           /\ Len(candidates) >= Len(rules) + Len(freq)
           /\ SubSeq(candidates, 1, Len(rules)) = rules
           /\ SubSeq(candidates, Len(rules) + 1, Len(rules) + Len(freq)) = freq

\* C17 witness: seven records, three of srv-a, three of srv-b and one without
\* identifier, gave two alert_frequency alerts after the alerts of the
\* metric rules.
C17_Witness ==
    /\ pc = "done"
    /\ path = "normal"
    /\ Len(infrastructure_data.alerts) = 7
    /\ RecordsOf("Unknown") = 1
    /\ RuleResults # <<>>
    /\ Len(FrequencyAlerts(candidates)) = 2

\* The alerts of the aggregate-health rule among the candidates: the
\* availability alerts of the whole infrastructure and the network_health
\* alerts.
AggregateAvailability ==
    LET IsAggregate(a) ==
            a.metric = "availability" /\ a.endpoint = "Infraestrutura Geral"
    IN  SelectSeq(candidates, IsAggregate)

NetworkHealth ==
    LET IsNetwork(a) == a.metric = "network_health"
    IN  SelectSeq(candidates, IsNetwork)

\* C18: with no per-endpoint record to analyse (none given, or none with
\* data left by the conversion) and a total endpoint count above 0, there is
\* an availability alert of 90 iff online/total < 50 %, of 75 iff
\* 50 % <= online/total < 80 %, none from 80 %, and a network_health alert of
\* 85 iff offline/total > 30 %; with per-endpoint records the rule gives
\* nothing.
C18_AggregateHealth ==
    (pc = "done" /\ path = "normal")
    => LET total == infrastructure_data.total_endpoints
           online == infrastructure_data.total_online
           offline == infrastructure_data.total_offline
           Availability(p) ==
               \E i \in 1..Len(AggregateAvailability) :
                   AggregateAvailability[i].probability = p
       IN  /\ (normalized = <<>> /\ total > 0) =>
                /\ Len(AggregateAvailability) <= 1
                /\ Availability(Pct(90)) <=> online * 100 < 50 * total
                /\ Availability(Pct(75)) <=>
                      (50 * total <= online * 100 /\ online * 100 < 80 * total)
                /\ online * 100 >= 80 * total => AggregateAvailability = <<>>
                /\ Len(NetworkHealth) <= 1
                /\ (\E i \in 1..Len(NetworkHealth) :
                        NetworkHealth[i].probability = Pct(85))
                     <=> offline * 10 > 3 * total
                /\ \A i \in 1..Len(NetworkHealth) :
                        NetworkHealth[i].probability = Pct(85)
           /\ normalized # <<>> =>
                AggregateAvailability = <<>> /\ NetworkHealth = <<>>

\* C18 witness: counts of 10 endpoints, 7 online and 3 offline, gave the
\* availability alert of 75 and, at exactly 30 % offline, no network_health
\* alert.
C18_Witness ==
    /\ pc = "done"
    /\ path = "normal"
    /\ normalized = <<>>
    /\ infrastructure_data.total_endpoints = 10
    /\ infrastructure_data.total_online = 7
    /\ infrastructure_data.total_offline = 3
    /\ Len(AggregateAvailability) = 1
    /\ AggregateAvailability[1].probability = Pct(75)
    /\ NetworkHealth = <<>>

\* C19: a pass over the provider's overview (counts under total_endpoints,
\* online_endpoints and offline_endpoints) gives the aggregate-health alerts
\* of the ratios online_endpoints/total_endpoints and
\* offline_endpoints/total_endpoints; an overview with every endpoint online
\* gives no aggregate availability alert.
C19_OverviewRatios ==
    (pc = "done" /\ overview # NoOverview /\ overview.total_endpoints > 0)
    => LET total == overview.total_endpoints
           online == overview.online_endpoints
           offline == overview.offline_endpoints
       IN  /\ (\E i \in 1..Len(AggregateAvailability) :
                   AggregateAvailability[i].probability = Pct(90))
                <=> online * 100 < 50 * total
           /\ (\E i \in 1..Len(AggregateAvailability) :
                   AggregateAvailability[i].probability = Pct(75))
                <=> (50 * total <= online * 100 /\ online * 100 < 80 * total)
           /\ NetworkHealth # <<>> <=> offline * 10 > 3 * total
           /\ online = total => AggregateAvailability = <<>>

\* C19 witness: the pass ran on an overview of 10 endpoints, 4 of them
\* online, and gave an aggregate availability alert of 90.
C19_Witness ==
    /\ pc = "done"
    /\ overview # NoOverview
    /\ overview.total_endpoints = 10
    /\ overview.online_endpoints = 4
    /\ Len(AggregateAvailability) = 1
    /\ AggregateAvailability[1].probability = Pct(90)

\* C23: a pass over monitors normalizes every well-formed monitor to exactly
\* one record, in input order, whatever its counters are; the record's
\* status is "disabled" when the active flag is the boolean false, whatever
\* the status flag, and otherwise "online" for a truthy status flag and
\* "offline" for a falsy or missing one.
C23_MonitorStatus ==
    (pc = "done" /\ path = "normal" /\ infrastructure_data.monitors # <<>>)
    => /\ Len(normalized) = Len(WellFormedMonitors)
       /\ \A i \in 1..Len(WellFormedMonitors) :
            LET flags == WellFormedMonitors[i].data
                status_set == flags.status.k \in {"str", "numstr"}
                                \/ (flags.status.k = "num" /\ flags.status.v # 0)
            IN  /\ normalized[i].name = WellFormedMonitors[i].endpoint
                /\ normalized[i].data.status
                     = (IF flags.active.k = "false" THEN "disabled"
                        ELSE IF status_set THEN "online" ELSE "offline")

\* C23 witness: two monitors were normalized in order, the first with a true
\* status flag, a false active flag and non-numeric counters to "disabled",
\* the second with no flag at all to "offline".
C23_Witness ==
    /\ pc = "done"
    /\ path = "normal"
    /\ Len(infrastructure_data.monitors) = 2
    /\ Len(normalized) = 2
    /\ infrastructure_data.monitors[1].data.status = Num(1)
    /\ infrastructure_data.monitors[1].data.active = ActiveFalse
    /\ infrastructure_data.monitors[1].data.hrProcessorLoad = Str
    /\ normalized[1].data.status = "disabled"
    /\ infrastructure_data.monitors[2].data.status = None
    /\ normalized[2].data.status = "offline"

\* Every alert of the list has a probability above 60 and of at most 95.
ProbabilitiesInBand(alerts) ==
    \A i \in 1..Len(alerts) :
        alerts[i].probability > Pct(60) /\ alerts[i].probability <= Pct(95)

\* C25: every alert the engine constructs, from the threshold rules, the
\* aggregate rule, the pattern detector or the exemplars, has a probability
\* above 60 and of at most 95; so at the threshold 50 the filter removes
\* nothing (only the limit of 10 shortens the list), and at a threshold
\* above 95 the pass returns the empty list for every input.
C25_ProbabilityBand ==
    /\ rule_pc = "done" => ProbabilitiesInBand(endpoint_alerts)
    /\ pc = "done" =>
          /\ ProbabilitiesInBand(candidates)
          /\ config.confidence_threshold = Pct(50) =>
                /\ Len(result) = Min(10, Len(candidates))
                /\ \A i \in 1..Len(candidates) :
                      Len(candidates) <= 10 =>
                          \E j \in 1..Len(result) : result[j] = candidates[i]
          /\ config.confidence_threshold > Pct(95) => result = <<>>

\* C25 witness: a pass over per-endpoint records at a threshold of 100
\* built alerts, one of them at 95, and returned none.
C25_Witness ==
    /\ pc = "done"
    /\ path = "normal"
    /\ config.confidence_threshold = Pct(100)
    /\ infrastructure_data.endpoints # <<>>
    /\ \E i \in 1..Len(candidates) : candidates[i].probability = Pct(95)
    /\ result = <<>>

\* The endpoints named by the config's allow-list.
AllowedEndpoints == {config.endpoints[i] : i \in 1..Len(config.endpoints)}

\* C26: under a non-empty allow-list in PredictiveConfig.endpoints, every
\* returned alert that is derived from the data (every alert but the
\* exemplars) is about an endpoint of the list.
C26_AllowList ==
    (pc = "done" /\ path = "normal" /\ config.endpoints # <<>>)
    => \A i \in 1..Len(result) :
          result[i].endpoint \in AllowedEndpoints \cup ExemplarEndpoints

\* C26 witness: a pass under the allow-list [srv-a] over records of srv-a
\* and of another endpoint returned alerts about srv-a.
C26_Witness ==
    /\ pc = "done"
    /\ path = "normal"
    /\ config.endpoints = <<"srv-a">>
    /\ \E i, j \in 1..Len(infrastructure_data.endpoints) :
          /\ infrastructure_data.endpoints[i].name = "srv-a"
          /\ infrastructure_data.endpoints[j].name # "srv-a"
    /\ \E i \in 1..Len(result) : result[i].endpoint = "srv-a"

----------------------------------------------------------------------------
(* Further properties of the rule engine (SpecRules) *)

\* The endpoint of the state with the reading `value` under `key`.
WithReading(key, value) ==
    [endpoint EXCEPT !.data = [endpoint.data EXCEPT ![key] = value]]

\* In family m, read from `key`, no numeric reading below the endpoint's own
\* gets an alert of a higher probability than the endpoint's, or an alert
\* where the endpoint gets none.
MonotoneIn(m, key, readings) ==
    IsNumber(endpoint.data[key])
    => \A w \in readings :
          (IsNumber(w) /\ w.v <= endpoint.data[key].v)
          => LET lower == FamilyAlerts(
                             _analyze_endpoint_trends(WithReading(key, w),
                                                      config), m)
                 own == FamilyAlerts(endpoint_alerts, m)
             IN  lower # <<>> =>
                    /\ own # <<>>
                    /\ lower[1].probability <= own[1].probability

\* C24: within the CPU, memory and latency families the alert probability
\* is non-decreasing in the reading, across the band boundaries too.
C24_MonotoneProbability ==
    (rule_pc = "done" /\ endpoint.has_data)
    => /\ MonotoneIn("cpu_usage", "cpu_usage", CpuReadings)
       /\ MonotoneIn("memory_usage", "memory_usage", MemoryReadings)
       /\ MonotoneIn("response_time", "response_time", LatencyReadings)

\* C24 witness: a latency of 2001 ms, just above the 2000 ms boundary, got
\* its alert.
C24_Witness ==
    /\ rule_pc = "done"
    /\ endpoint.has_data
    /\ endpoint.data.response_time = Num(2001)
    /\ FamilyAlerts(endpoint_alerts, "response_time") # <<>>

----------------------------------------------------------------------------
(* Further properties of the retrieval store (SpecStore) *)

\* Jaccard of the two texts' word sets plus 0.1 per shared domain keyword,
\* as an exact fraction; 0 when a text has no word.
LexicalScore(text1, text2) ==
    LET w1 == TokensOf[text1]
        w2 == TokensOf[text2]
        shared == w1 \cap w2
        keywords == shared \cap important_words
        all == Cardinality(w1 \cup w2)
    IN  IF w1 = {} \/ w2 = {} THEN Ratio(0, 1)
        ELSE Ratio(10 * Cardinality(shared) + Cardinality(keywords) * all,
                   10 * all)

\* The documents of the store that the filter of the last search admits.
Searched ==
    {i \in 1..Len(knowledge_base) :
        MatchesFilter(knowledge_base[i].metadata, store_call.filter_metadata)}

ReturnedIds == {store_return.value[i].id : i \in 1..Len(store_return.value)}

\* A document whose score is <= 0.1 is not among the results of a search.
LowScoresDiscarded ==
    \A i \in Searched :
        (/\ knowledge_base[i].content # NonString
         /\ ~RatioLess(Ratio(1, 10),
                       LexicalScore(store_call.query,
                                    knowledge_base[i].content)))
        => knowledge_base[i].id \notin ReturnedIds

\* C20 as stated: the similarity the store returns with a document is
\* Jaccard plus 0.1 per shared domain keyword, with no upper cap, and a
\* document whose score is <= 0.1 is discarded.
C20_Original ==
    store_call.op = "search_similar"
    => /\ \A i \in 1..Len(store_return.value) :
            RatioEqual(store_return.value[i].similarity,
                       LexicalScore(store_call.query,
                                    store_return.value[i].content))
       /\ LowScoresDiscarded

\* C20, amended: the similarity the store returns with a document is
\* min(1.0, Jaccard plus 0.1 per shared domain keyword), so it never exceeds
\* 1.0, and a document whose score is <= 0.1 is discarded.
C20_CappedSimilarity ==
    store_call.op = "search_similar"
    => /\ \A i \in 1..Len(store_return.value) :
            LET score == LexicalScore(store_call.query,
                                      store_return.value[i].content)
                similarity == store_return.value[i].similarity
            IN  /\ RatioEqual(similarity,
                              IF RatioLess(Ratio(1, 1), score)
                              THEN Ratio(1, 1) ELSE score)
                /\ ~RatioLess(Ratio(1, 1), similarity)
                /\ RatioLess(Ratio(1, 10), similarity)
       /\ LowScoresDiscarded

\* C20 witness: a search returned, with similarity 1.0, a document whose
\* Jaccard-plus-bonus score is above 1.0, and left out a document of the
\* store whose score is <= 0.1.
C20_Witness ==
    /\ store_call.op = "search_similar"
    /\ \E i \in 1..Len(store_return.value) :
          /\ RatioLess(Ratio(1, 1),
                       LexicalScore(store_call.query,
                                    store_return.value[i].content))
          /\ RatioEqual(store_return.value[i].similarity, Ratio(1, 1))
    /\ \E i \in Searched : knowledge_base[i].id \notin ReturnedIds
    /\ Len(store_return.value) < store_call.n_results

\* The last search met an internal error: a document that its filter admits
\* has a content that is no str.
SearchFailed ==
    \E i \in Searched : knowledge_base[i].content = NonString

\* What a search_similar call returned is well-formed.
SearchResultsWellFormed ==
    store_call.op = "search_similar"
    => LET results == store_return.value
           filter_metadata == store_call.filter_metadata
       IN  /\ Len(results) <= store_call.n_results
           /\ \A i \in 1..Len(results) :
                /\ RatioLess(Ratio(1, 10), results[i].similarity)
                /\ i > 1 => ~RatioLess(results[i - 1].similarity,
                                       results[i].similarity)
                /\ \A k \in DOMAIN filter_metadata :
                      /\ k \in DOMAIN results[i].metadata
                      /\ results[i].metadata[k] = filter_metadata[k]
                /\ \E j \in 1..Len(knowledge_base) :
                      /\ knowledge_base[j].id = results[i].id
                      /\ knowledge_base[j].content = results[i].content
           /\ SearchFailed => results = <<>>

\* C21: search_similar returns at most n_results entries of the corpus, in
\* order of non-increasing similarity, each with similarity > 0.1 and with
\* the filter's value on every filter key; on an internal error it returns
\* the empty list; and a search leaves the corpus unchanged.
C21_SearchResults ==
    /\ []SearchResultsWellFormed
    /\ [][store_call'.op = "search_similar"
            => knowledge_base' = knowledge_base]_vars

\* C21 witness: a filtered search for up to 3 documents returned two, the
\* later-added one first.
C21_Witness ==
    /\ store_call.op = "search_similar"
    /\ store_call.n_results = 3
    /\ store_call.filter_metadata = Knowledge
    /\ Len(store_return.value) = 2
    /\ store_return.value[1].id = knowledge_base[Len(knowledge_base)].id
    /\ RatioLess(store_return.value[2].similarity,
                 store_return.value[1].similarity)

\* The contents of the ranked results that the last context call walked: the
\* embedding store's search results, or the lexical store's top documents.
RankedContents ==
    LET ranked == IF store_call.op = "chroma_get_relevant_context"
                  THEN store_call.results
                  ELSE search_similar(knowledge_base, store_call.query,
                                      store_call.n_results, EmptyDict)
    IN  [i \in 1..Len(ranked) |-> ranked[i].content]

\* The number of leading results that fit the budget as whole documents.
WholeDocuments ==
    LET Fits(j) == TotalLength(SubSeq(RankedContents, 1, j))
                     <= store_call.max_context_length
    IN  CHOOSE j \in 0..Len(RankedContents) :
            /\ \A k \in 0..j : Fits(k)
            /\ j < Len(RankedContents) => ~Fits(j + 1)

\* The chunks the claim describes: the whole documents in rank order, then
\* one truncated prefix of the next result when more than 100 characters of
\* the budget remain, and nothing after it.
ExpectedChunks ==
    LET whole == SubSeq(RankedContents, 1, WholeDocuments)
        remaining == store_call.max_context_length - TotalLength(whole)
    IN  IF WholeDocuments < Len(RankedContents) /\ remaining > 100
        THEN Append(whole,
                    SubSeq(RankedContents[WholeDocuments + 1], 1, remaining)
                      \o "...")
        ELSE whole

\* The lexical store assembled a context: the query is not blank, the search
\* did not fail and found something.
LexicalContextAssembled ==
    /\ store_call.op = "get_relevant_context"
    /\ ~IsBlank(store_call.query)
    /\ \A i \in 1..Len(knowledge_base) : knowledge_base[i].content # NonString
    /\ RankedContents # <<>>

\* C22: context assembly appends the ranked documents whole, in rank order,
\* while they fit the budget; at the first that would overflow it appends
\* one ellipsis-marked prefix only if more than 100 characters of budget
\* remain, and stops: nothing ranked lower is included, even if it fits.
C22_AssemblyStopsAtOverflow ==
    /\ store_call.op = "chroma_get_relevant_context"
       => store_return.value = ExpectedChunks
    /\ LexicalContextAssembled
       => store_return.value = Join("\n\n---\n\n", ExpectedChunks)

\* C22 witness: under a budget of 100 the embedding store ranked a document
\* of more than 100 characters before one that fits, and returned nothing.
C22_Witness ==
    /\ store_call.op = "chroma_get_relevant_context"
    /\ store_call.max_context_length = 100
    /\ Len(store_call.results) = 2
    /\ Len(store_call.results[1].content) > 100
    /\ Len(store_call.results[2].content) <= 100
    /\ store_return.value = <<>>

----------------------------------------------------------------------------
(* Further properties of the orchestrator (SpecRag) *)

\* generate_response was called and its request failed or gave no answer.
GenerationFailed ==
    /\ generate_call.called
    /\ generate_call.reply \in RequestFailures \cup NoAnswer

\* C14: when the generation request fails (error status, timeout, malformed
\* response) or yields an empty or blank answer, process_query returns an
\* AnalysisResponse with confidence 0, no sources and the canned
\* suggestions.
C14_GenerationFailureDegrades ==
    (rag_pc = "returned" /\ GenerationFailed) =>
        /\ response.confidence = 0
        /\ response.sources = <<>>
        /\ response.suggestions = <<"Tente reformular a pergunta",
                                    "Verifique a conectividade",
                                    "Consulte os logs do sistema">>

\* process_query returned after a blank answer to a call that had context
\* and live data.
C14_Witness ==
    /\ rag_pc = "returned"
    /\ generate_call.called
    /\ generate_call.reply = "blank"
    /\ generate_call.retrieved_context # <<>>
    /\ generate_call.infrastructure_data # None
    /\ response.confidence = 0

\* process_query returned after its context lookup raised.
ContextLookupFailed == rag_pc = "returned" /\ context_task = Raised

\* After a failed context lookup generate_response was called with an
\* empty context, and with the live data when the live task returned some.
GeneratedWithoutContext ==
    /\ generate_call.called
    /\ generate_call.retrieved_context = <<>>
    /\ live_data_task.st = "returned" =>
           generate_call.infrastructure_data = live_data_task.value
    /\ response = generate_call.returned
    /\ response # QueryErrorResponse

\* C15: a failure of the context lookup does not abort process_query,
\* whether or not a live-telemetry fetch was started: the context becomes
\* empty and generate_response is still called, with the live data when
\* that branch succeeded, and its response is what process_query returns.
C15_ContextFailureTolerated ==
    ContextLookupFailed => GeneratedWithoutContext

\* The context lookup raised in a call made without live data.
C15_Witness ==
    /\ ContextLookupFailed
    /\ ~rag_call.include_live_data
    /\ live_data_task = Absent

\* C27: the overview, alerts and recent-metrics fetches end in any order and
\* with any combination of failures, and the live task joins all three: it
\* never raises and never returns while a fetch is pending; a failed fetch
\* contributes {} (overview) or [] (alerts, metrics) and a successful one its
\* result; the task returns None only when the metrics it got cannot be
\* converted.
C27_FanOutIsolatesFailures ==
    /\ live_data_task # Raised
    /\ live_data_task.st = "returned" =>
          /\ \A f \in DOMAIN fetches : fetches[f] \notin {"pending", "absent"}
          /\ IF fetches.metrics = "malformed"
             THEN live_data_task.value = None
             ELSE /\ live_data_task.value # None
                  /\ live_data_task.value.overview
                       = (IF fetches.overview = "failed" THEN [k \in {} |-> ""]
                          ELSE OverviewData)
                  /\ live_data_task.value.active_alerts
                       = (IF fetches.alerts = "failed" THEN <<>> ELSE AlertsData)
                  /\ live_data_task.value.recent_metrics
                       = (IF fetches.metrics = "failed" THEN <<>>
                          ELSE MetricsData)

\* C27 witness: the overview and the metrics fetches failed, the alerts
\* fetch succeeded, and the live task returned the alerts with the two
\* defaults.
C27_Witness ==
    /\ live_data_task.st = "returned"
    /\ fetches.overview = "failed"
    /\ fetches.alerts = "ok"
    /\ fetches.metrics = "failed"
    /\ live_data_task.value # None
    /\ live_data_task.value.active_alerts = AlertsData

----------------------------------------------------------------------------
(* Predictive analysis by the generation collaborator (gemini_service.py) *)

\* JSON arrays and objects; numbers, strings and null are Num, Str and None.
JList(items) == [k |-> "list", v |-> items]

JDict(d) == [k |-> "dict", v |-> d]

\* The replies of the generation API that are JSON documents, with the value
\* json.loads gives for each.
JsonDocuments ==
    << <<"{\"confidence\": 90, \"predictions\": [{\"metric\": \"cpu_usage\", \"probability\": 150}]}",
         JDict([confidence |-> Num(90),
                predictions |-> JList(<<JDict([metric |-> Str,
                                               probability |-> Num(150)])>>)])>>,
       <<"{\"confidence\": 10}", JDict([confidence |-> Num(10)])>>,
       <<"{\"confidence\": 250, \"predictions\": []}",
         JDict([confidence |-> Num(250), predictions |-> JList(<<>>)])>>,
       <<"{}", JDict(EmptyDict)>>,
       <<"{\"confidence\": -5, \"predictions\": [{\"probability\": -20}, \"cpu\", {}]}",
         JDict([confidence |-> Num(-5),
                predictions |-> JList(<<JDict([probability |-> Num(-20)]),
                                        Str, JDict(EmptyDict)>>)])>>,
       <<"{\"confidence\": \"high\"}", JDict([confidence |-> Str])>>,
       <<"{\"predictions\": [{\"probability\": \"likely\"}]}",
         JDict([predictions |-> JList(<<JDict([probability |-> Str])>>)])>>,
       <<"{\"predictions\": null}", JDict([predictions |-> None])>>,
       <<"{\"predictions\": \"cpu\"}", JDict([predictions |-> Str])>>,
       <<"[{\"metric\": \"cpu\", \"probability\": 80}]",
         JList(<<JDict([metric |-> Str, probability |-> Num(80)])>>)>>,
       <<"75", Num(75)>> >>

\* The replies that are free text.
TextReplies ==
    {"", "All systems nominal", "CPU alta; verificar a rede",
     "Risco de memória no servidor", "Memory and network look degraded"}

\* What may precede and follow the body of a reply. A string of this module
\* cannot hold a backquote: the three backquotes of a code fence are written
\* ~~~ here.
Openings == {"", "~~~json\n", "~~~\n", "~~~python\n", " \n"}

Closings == {"", "\n~~~", "\n"}

ReplyBodies == {JsonDocuments[i][1] : i \in 1..Len(JsonDocuments)} \cup TextReplies

\* The texts _make_gemini_request returns to the predictive analysis.
PredictiveReplies ==
    {o \o b \o c : o \in Openings, b \in ReplyBodies, c \in Closings}

RECURSIVE LStrip(_)
LStrip(s) ==
    IF s # "" /\ CharAt(s, 1) \in Whitespace
    THEN LStrip(SubSeq(s, 2, Len(s)))
    ELSE s

RECURSIVE RStrip(_)
RStrip(s) ==
    IF s # "" /\ CharAt(s, Len(s)) \in Whitespace
    THEN RStrip(SubSeq(s, 1, Len(s) - 1))
    ELSE s

\* str.strip()
Strip(s) == RStrip(LStrip(s))

StartsWith(s, prefix) ==
    Len(s) >= Len(prefix) /\ SubSeq(s, 1, Len(prefix)) = prefix

EndsWith(s, suffix) ==
    Len(s) >= Len(suffix) /\ SubSeq(s, Len(s) - Len(suffix) + 1, Len(s)) = suffix

\* `sub in s`
Contains(s, sub) ==
    \E i \in 1..(Len(s) - Len(sub) + 1) : SubSeq(s, i, i + Len(sub) - 1) = sub

\* The reply without its code fence markers, as json.loads receives it.
StripCodeFences(text) ==
    LET a == Strip(text)
        b == IF StartsWith(a, "~~~json") THEN SubSeq(a, 8, Len(a)) ELSE a
        c == IF StartsWith(b, "~~~") THEN SubSeq(b, 4, Len(b)) ELSE b
        d == IF EndsWith(c, "~~~") THEN SubSeq(c, 1, Len(c) - 3) ELSE c
    IN  Strip(d)

JSONDecodeError == [ok |-> FALSE]

\* json.loads over the replies: a text that is none of the JSON documents is
\* no JSON document.
json_loads(text) ==
    IF \E i \in 1..Len(JsonDocuments) : JsonDocuments[i][1] = text
    THEN [ok |-> TRUE,
          value |-> JsonDocuments[CHOOSE i \in 1..Len(JsonDocuments) :
                                     JsonDocuments[i][1] = text][2]]
    ELSE JSONDecodeError

\* min(100, max(0, x)) of a number.
ClampPercent(x) == Min(100, Max(0, x))

\* The entries of "predictions" the validation loop visits: the items of a
\* list; the keys of an object and the characters of a string are no dicts.
PredictionItems(predictions) ==
    IF predictions.k = "list" THEN predictions.v ELSE <<>>

RECURSIVE ValidatedPredictions(_)
ValidatedPredictions(items) ==
    IF items = <<>> THEN <<>>
    ELSE LET pred == Head(items)
         IN  (IF pred.k = "dict"
              THEN <<[probability |->
                        ClampPercent(Get(pred.v, "probability", Num(50)).v)]>>
              ELSE <<>>)
             \o ValidatedPredictions(Tail(items))

\* Whether building the result from the parsed object raises: min and max of
\* a value that is no number, or a loop over a value that cannot be iterated.
ValidationRaises(parsed_data) ==
    LET predictions == Get(parsed_data, "predictions", JList(<<>>))
    IN  \/ ~IsNumber(Get(parsed_data, "confidence", Num(75)))
        \/ predictions.k \in {"num", "none"}
        \/ \E i \in 1..Len(PredictionItems(predictions)) :
              LET pred == PredictionItems(predictions)[i]
              IN  /\ pred.k = "dict"
                  /\ ~IsNumber(Get(pred.v, "probability", Num(50)))

\* The fixed result of the last except clause of _parse_predictive_response.
ParseDegraded == [confidence |-> 0, predictions |-> <<>>]

\* The fixed result of the except clause of generate_predictive_analysis.
RequestDegraded == [confidence |-> 0, predictions |-> <<>>]

TextPrediction(server, metric, probability) ==
    [endpoint |-> server, metric |-> metric, probability |-> probability]

_extract_predictive_info_from_text(text) ==
    LET text_lower == Lower(text)
        predictions ==
            (IF Contains(text_lower, "cpu")
             THEN <<TextPrediction("Server-01", "cpu_usage", 75)>> ELSE <<>>)
            \o (IF Contains(text_lower, "memória") \/ Contains(text_lower, "memory")
                THEN <<TextPrediction("Server-02", "memory_usage", 70)>> ELSE <<>>)
            \o (IF Contains(text_lower, "rede") \/ Contains(text_lower, "network")
                THEN <<TextPrediction("Network-01", "network_latency", 65)>>
                ELSE <<>>)
    IN  [confidence |-> IF predictions # <<>> THEN 60 ELSE 30,
         predictions |-> predictions]

\* The return statement of _parse_predictive_response that a reply reaches.
ParseReturn(text) ==
    LET loaded == json_loads(StripCodeFences(text))
    IN  IF ~loaded.ok THEN "text"
        ELSE IF loaded.value.k # "dict" THEN "degraded"
        ELSE IF ValidationRaises(loaded.value.v) THEN "degraded"
        ELSE "json"

_parse_predictive_response(text) ==
    LET stripped == StripCodeFences(text)
        loaded == json_loads(stripped)
    IN  CASE ParseReturn(text) = "text" ->
                 _extract_predictive_info_from_text(stripped)
          [] ParseReturn(text) = "degraded" -> ParseDegraded
          [] OTHER ->
                 [confidence |->
                      ClampPercent(Get(loaded.value.v, "confidence", Num(75)).v),
                  predictions |->
                      ValidatedPredictions(PredictionItems(
                          Get(loaded.value.v, "predictions", JList(<<>>))))]

InitGemini ==
    /\ RulesIdle
    /\ PassIdle
    /\ StoreIdle
    /\ RagIdle
    /\ ClientIdle
    /\ config = NoConfig
    /\ gemini_call = "ready"
    /\ response_text = ""
    /\ analysis_result = [confidence |-> 0, predictions |-> <<>>]
    /\ returned_by = "none"

\* response_text = await self._make_gemini_request(contents)
MakeGeminiRequest ==
    /\ gemini_call = "ready"
    /\ response_text' \in PredictiveReplies
    /\ gemini_call' = "requested"
    /\ UNCHANGED <<analysis_result, returned_by, config, rule_state, pass_state,
                   store_state, rag_state, client_state>>

\* The request raises (status other than 200, timeout, no candidate text) and
\* the except clause of generate_predictive_analysis returns its fixed result.
GeminiRequestRaises ==
    /\ gemini_call = "ready"
    /\ analysis_result' = RequestDegraded
    /\ returned_by' = "request_failed"
    /\ gemini_call' = "done"
    /\ UNCHANGED <<response_text, config, rule_state, pass_state, store_state,
                   rag_state, client_state>>

\* analysis_result = await self._parse_predictive_response(response_text)
\* return analysis_result
ParsePredictiveResponse ==
    /\ gemini_call = "requested"
    /\ analysis_result' = _parse_predictive_response(response_text)
    /\ returned_by' = ParseReturn(response_text)
    /\ gemini_call' = "done"
    /\ UNCHANGED <<response_text, config, rule_state, pass_state, store_state,
                   rag_state, client_state>>

NextGemini == MakeGeminiRequest \/ GeminiRequestRaises \/ ParsePredictiveResponse

SpecGemini == InitGemini /\ [][NextGemini]_vars

----------------------------------------------------------------------------
(* Properties of the predictive response parsing (SpecGemini) *)

\* Whether a reply yields the JSON object the parser expects: an object whose
\* confidence and probabilities are numbers and whose predictions can be
\* iterated.
YieldsExpectedObject(text) ==
    LET loaded == json_loads(StripCodeFences(text))
    IN  /\ loaded.ok
        /\ loaded.value.k = "dict"
        /\ ~ValidationRaises(loaded.value.v)

\* Every reported confidence and prediction probability lies in [0, 100].
PercentagesInRange ==
    /\ analysis_result.confidence \in 0..100
    /\ \A i \in 1..Len(analysis_result.predictions) :
          analysis_result.predictions[i].probability \in 0..100

\* C28: a reply that yields the expected JSON object is answered by the JSON
\* tier and every other reply by text extraction; the fixed degraded result
\* is the last resort; a JSON-tier confidence is at least any text-extraction
\* confidence (60 or 30), which is above the degraded result's 0; and every
\* confidence and probability lies in [0, 100].
C28_FallbackTiers ==
    gemini_call = "done" =>
        /\ returned_by # "request_failed" =>
              returned_by = (IF YieldsExpectedObject(response_text)
                             THEN "json" ELSE "text")
        /\ returned_by = "json" => analysis_result.confidence >= 60
        /\ returned_by = "text" => analysis_result.confidence \in {30, 60}
        /\ returned_by \in {"degraded", "request_failed"} =>
              analysis_result.confidence = 0
        /\ PercentagesInRange

\* C28 witness: a reply that is a JSON array naming a CPU problem was parsed
\* and answered by the fixed degraded result, with no text extraction.
C28_Witness ==
    /\ gemini_call = "done"
    /\ json_loads(StripCodeFences(response_text)).ok
    /\ json_loads(StripCodeFences(response_text)).value.k = "list"
    /\ Contains(Lower(response_text), "cpu")
    /\ returned_by = "degraded"
    /\ analysis_result.confidence = 0

----------------------------------------------------------------------------
(* The telemetry client: authentication and requests (infrawatch_client.py) *)

\* The clock counts in units of the time a token is trusted after a login or
\* a refresh (expires_in_minutes - 5).
TokenLifetime == 1

MaxClock == 1

\* datetime.now() >= self._token_expires_at, of a token that has an expiry
Expired(expires_at, time) == expires_at # NoExpiry /\ time >= expires_at

\* What ensure_authenticated does with the token fields it finds: "login",
\* "refresh" (it calls refresh_access_token) or "valid" (it returns True).
ensure_authenticated_LoginFirst(access, refresh, expires_at, time) ==
    IF access = NoToken THEN "login"
    ELSE IF Expired(expires_at, time) THEN "login"
    ELSE "valid"

ensure_authenticated(access, refresh, expires_at, time) ==
    IF access = NoToken THEN "login"
    ELSE IF Expired(expires_at, time) THEN "refresh"
    ELSE "valid"

\* The exchange refresh_access_token begins: without a refresh token it is
\* a full login.
refresh_access_token(refresh) ==
    IF refresh = NoToken THEN "login" ELSE "refresh"

\* What a call finds in the token fields when it begins.
Found(access, refresh, expires_at, time) ==
    IF access = NoToken THEN "missing"
    ELSE IF ~Expired(expires_at, time) THEN "valid"
    ELSE IF refresh = NoToken THEN "expired_without_refresh_token"
    ELSE "expired"

\* if response.status_code in [401, 403] and retry_on_auth_failure
ReauthenticateOn(status, retry_on_auth_failure) ==
    status \in {401, 403} /\ retry_on_auth_failure

\* No response: a timeout or a transport error of the HTTP client.
NoReply == 0

\* What the backend answers to a request.
Statuses == {200, 401, 403, 500, NoReply}

\* What the backend answers to a login: both tokens, an access token only,
\* or no token (a status other than 200, or an exception).
LoginOutcomes == {"tokens", "access_only", "failed"}

RefreshOutcomes == {"ok", "failed"}

Exchange(kind) == [kind |-> kind, ok |-> "pending"]

\* The exchanges of a call with the outcome of the last one filled in.
Answered(exchanges, ok) ==
    [exchanges EXCEPT ![Len(exchanges)] = [@ EXCEPT !.ok = ok]]

\* The token fields the client may hold when the calls begin: none, a token
\* still trusted, or an expired one; with or without a refresh token.
InitClient ==
    /\ RulesIdle
    /\ PassIdle
    /\ StoreIdle
    /\ RagIdle
    /\ GeminiIdle
    /\ config = NoConfig
    /\ wall_clock = 0
    /\ agent_credentials \in BOOLEAN
    /\ \/ /\ _access_token = NoToken
          /\ _refresh_token = NoToken
          /\ _token_expires_at = NoExpiry
       \/ /\ agent_credentials
          /\ _access_token = Token("login", "earlier")
          /\ _refresh_token \in {NoToken, Token("login", "earlier")}
          /\ _token_expires_at \in {0, TokenLifetime}
    /\ calls \in [Callers -> {[IdleCall EXCEPT !.pc = "start",
                                               !.retry_on_auth_failure = r] :
                                 r \in BOOLEAN}]

\* if not await self.ensure_authenticated(): raise ...; then the request is
\* sent. The call runs until its first HTTP exchange is under way.
BeginRequest(c) ==
    /\ calls[c].pc = "start"
    /\ LET call == calls[c]
           branch == ensure_authenticated(_access_token, _refresh_token,
                                          _token_expires_at, wall_clock)
           exchange == IF branch = "refresh"
                       THEN refresh_access_token(_refresh_token)
                       ELSE branch
           found == Found(_access_token, _refresh_token, _token_expires_at,
                          wall_clock)
       IN  calls' = [calls EXCEPT ![c] =
                IF branch = "valid"
                THEN [call EXCEPT !.pc = "request", !.found = found, !.sent = 1]
                ELSE IF exchange = "login" /\ ~agent_credentials
                THEN [call EXCEPT !.pc = "raised", !.found = found]
                ELSE [call EXCEPT !.pc = exchange, !.found = found,
                                  !.exchanges = Append(@, Exchange(exchange))]]
    /\ UNCHANGED <<_access_token, _refresh_token, _token_expires_at,
                   agent_credentials, wall_clock, config, rule_state,
                   pass_state, store_state, rag_state, gemini_state>>

\* The fields login() writes on a 200 response.
LoginWrites(c, outcome) ==
    IF outcome = "failed"
    THEN UNCHANGED <<_access_token, _refresh_token, _token_expires_at>>
    ELSE /\ _access_token' = Token("login", c)
         /\ _refresh_token' = (IF outcome = "tokens" THEN Token("login", c)
                               ELSE NoToken)
         /\ _token_expires_at' = wall_clock + TokenLifetime

\* The login of ensure_authenticated is answered: on success the request is
\* sent, on failure _make_request raises.
LoginReplies(c) ==
    /\ calls[c].pc = "login"
    /\ \E outcome \in LoginOutcomes :
          /\ LoginWrites(c, outcome)
          /\ calls' = [calls EXCEPT ![c] =
                IF outcome = "failed"
                THEN [@ EXCEPT !.pc = "raised",
                               !.exchanges = Answered(@, "failed")]
                ELSE [@ EXCEPT !.pc = "request", !.sent = @ + 1,
                               !.exchanges = Answered(@, "ok")]]
    /\ UNCHANGED <<agent_credentials, wall_clock, config, rule_state,
                   pass_state, store_state, rag_state, gemini_state>>

\* The refresh is answered: on success the request is sent, on failure
\* refresh_access_token falls back to login().
RefreshReplies(c) ==
    /\ calls[c].pc = "refresh"
    /\ \E outcome \in RefreshOutcomes :
          IF outcome = "ok"
          THEN /\ _access_token' = Token("refresh", c)
               /\ _token_expires_at' = wall_clock + TokenLifetime
               /\ calls' = [calls EXCEPT ![c] =
                     [@ EXCEPT !.pc = "request", !.sent = @ + 1,
                               !.exchanges = Answered(@, "ok")]]
               /\ UNCHANGED _refresh_token
          ELSE /\ calls' = [calls EXCEPT ![c] =
                     IF agent_credentials
                     THEN [@ EXCEPT !.pc = "login",
                                    !.exchanges = Append(Answered(@, "failed"),
                                                         Exchange("login"))]
                     ELSE [@ EXCEPT !.pc = "raised",
                                    !.exchanges = Answered(@, "failed")]]
               /\ UNCHANGED <<_access_token, _refresh_token, _token_expires_at>>
    /\ UNCHANGED <<agent_credentials, wall_clock, config, rule_state,
                   pass_state, store_state, rag_state, gemini_state>>

\* The request is answered: a 401 or 403 with retry enabled begins a login,
\* a 200 is returned, anything else raises.
RequestReplies(c) ==
    /\ calls[c].pc = "request"
    /\ \E status \in Statuses :
          calls' = [calls EXCEPT ![c] =
             IF ReauthenticateOn(status, calls[c].retry_on_auth_failure)
             THEN IF agent_credentials
                  THEN [@ EXCEPT !.pc = "relogin",
                                 !.statuses = Append(@, status),
                                 !.exchanges = Append(@, Exchange("relogin"))]
                  ELSE [@ EXCEPT !.pc = "raised",
                                 !.statuses = Append(@, status)]
             ELSE [@ EXCEPT !.pc = (IF status = 200 THEN "returned"
                                    ELSE "raised"),
                            !.statuses = Append(@, status)]]
    /\ UNCHANGED <<_access_token, _refresh_token, _token_expires_at,
                   agent_credentials, wall_clock, config, rule_state,
                   pass_state, store_state, rag_state, gemini_state>>

\* The login after a 401 or 403 is answered: on success the request is sent
\* again, on failure raise_for_status raises for the first response.
ReloginReplies(c) ==
    /\ calls[c].pc = "relogin"
    /\ \E outcome \in LoginOutcomes :
          /\ LoginWrites(c, outcome)
          /\ calls' = [calls EXCEPT ![c] =
                IF outcome = "failed"
                THEN [@ EXCEPT !.pc = "raised",
                               !.exchanges = Answered(@, "failed")]
                ELSE [@ EXCEPT !.pc = "retry", !.sent = @ + 1,
                               !.exchanges = Answered(@, "ok")]]
    /\ UNCHANGED <<agent_credentials, wall_clock, config, rule_state,
                   pass_state, store_state, rag_state, gemini_state>>

\* The second request is answered: a 200 is returned, anything else raises.
RetryReplies(c) ==
    /\ calls[c].pc = "retry"
    /\ \E status \in Statuses :
          calls' = [calls EXCEPT ![c] =
             [@ EXCEPT !.pc = (IF status = 200 THEN "returned" ELSE "raised"),
                       !.statuses = Append(@, status)]]
    /\ UNCHANGED <<_access_token, _refresh_token, _token_expires_at,
                   agent_credentials, wall_clock, config, rule_state,
                   pass_state, store_state, rag_state, gemini_state>>

\* Time passes while calls are under way.
PassTime ==
    /\ wall_clock < MaxClock
    /\ \E c \in Callers : calls[c].pc \notin {"returned", "raised"}
    /\ wall_clock' = wall_clock + 1
    /\ UNCHANGED <<_access_token, _refresh_token, _token_expires_at,
                   agent_credentials, calls, config, rule_state, pass_state,
                   store_state, rag_state, gemini_state>>

\* One step of a call.
CallStep(c) ==
    \/ BeginRequest(c)
    \/ LoginReplies(c)
    \/ RefreshReplies(c)
    \/ RequestReplies(c)
    \/ ReloginReplies(c)
    \/ RetryReplies(c)

NextClient == (\E c \in Callers : CallStep(c)) \/ PassTime

SpecClient == InitClient /\ [][NextClient]_vars

\* Every HTTP exchange of the client ends, with a response or with the
\* timeout of the HTTP client, and the event loop resumes the waiting call.
SpecClientFair == SpecClient /\ \A c \in Callers : WF_vars(CallStep(c))

----------------------------------------------------------------------------
(* Properties of the telemetry client (SpecClient, SpecClientFair) *)

\* The calls whose authentication exchange, begun by ensure_authenticated,
\* is not yet answered.
AuthInFlight == {c \in Callers : calls[c].pc \in {"login", "refresh"}}

\* The authentication exchanges ensure_authenticated has begun so far.
EnsureExchanges ==
    {<<c, i>> \in Callers \X (1..3) :
        /\ i <= Len(calls[c].exchanges)
        /\ calls[c].exchanges[i].kind # "relogin"}

NoExchangeFailed ==
    \A c \in Callers : \A i \in 1..Len(calls[c].exchanges) :
        calls[c].exchanges[i].ok # "failed"

\* C29: of the calls that run concurrently on one client whose token is
\* missing or expired, at most one has a login or refresh exchange in
\* flight at any time, and as long as no exchange failed and the token
\* obtained has not expired again, at most one exchange was performed.
C29_SingleAuthentication ==
    /\ Cardinality(AuthInFlight) <= 1
    /\ (wall_clock = 0 /\ NoExchangeFailed) => Cardinality(EnsureExchanges) <= 1

\* C29 witness: both calls found the access token expired and the refresh of
\* each is in flight.
C29_Witness ==
    /\ \A c \in Callers : calls[c].pc = "refresh" /\ calls[c].found = "expired"
    /\ Cardinality(AuthInFlight) = 2
    /\ Cardinality(EnsureExchanges) = 2

\* The logins a call began after a 401 or 403.
Relogins(call) ==
    {i \in 1..Len(call.exchanges) : call.exchanges[i].kind = "relogin"}

\* Whether the authentication of a call succeeded: it found a token it
\* trusts, or the last exchange ensure_authenticated began was answered
\* with a token.
Authenticated(call) ==
    \/ call.found = "valid"
    \/ \E i \in 1..Len(call.exchanges) :
          /\ call.exchanges[i].kind # "relogin"
          /\ call.exchanges[i].ok = "ok"
          /\ \A j \in (i + 1)..Len(call.exchanges) :
                call.exchanges[j].kind = "relogin"

RequestBounded(call) ==
    /\ call.sent <= 2
    /\ Len(call.statuses) <= call.sent
    /\ Cardinality(Relogins(call)) <= 1
    /\ Relogins(call) # {} =>
          /\ call.statuses # <<>>
          /\ call.statuses[1] \in {401, 403}
          /\ call.retry_on_auth_failure
    /\ (/\ call.statuses # <<>>
        /\ call.statuses[1] \in {401, 403}
        /\ call.retry_on_auth_failure) =>
          /\ Cardinality(Relogins(call)) = 1
          /\ \A i \in Relogins(call) :
                /\ call.exchanges[i].ok = "ok" => call.sent = 2
                /\ call.exchanges[i].ok = "failed" =>
                      call.sent = 1 /\ call.pc = "raised"
    /\ call.sent = 2 =>
          \E i \in Relogins(call) : call.exchanges[i].ok = "ok"
    /\ Len(call.statuses) = 2 =>
          call.pc = (IF call.statuses[2] = 200 THEN "returned" ELSE "raised")
    /\ call.pc = "returned" => call.statuses[Len(call.statuses)] = 200

RefreshBeforeLogin(call) ==
    /\ call.found = "expired" /\ call.exchanges # <<>> =>
          /\ call.exchanges[1].kind = "refresh"
          /\ \A i \in 1..Len(call.exchanges) :
                call.exchanges[i].kind = "login" =>
                    i = 2 /\ call.exchanges[1].ok = "failed"
    /\ call.found \in {"missing", "expired_without_refresh_token"}
          /\ call.exchanges # <<>> =>
          call.exchanges[1].kind = "login"
    /\ call.found = "valid" =>
          \A i \in 1..Len(call.exchanges) : call.exchanges[i].kind = "relogin"

SentAfterAuthentication(call) == call.sent >= 1 => Authenticated(call)

RequestsWellFormed ==
    \A c \in Callers :
        /\ RequestBounded(calls[c])
        /\ RefreshBeforeLogin(calls[c])
        /\ SentAfterAuthentication(calls[c])

AllCallsEnded == \A c \in Callers : calls[c].pc \in {"returned", "raised"}

\* C30: a call sends at most two requests and ends; after a 401 or 403 with
\* retry enabled it logs in exactly once and sends the request exactly once
\* more if the login succeeded, and raises if the login failed or the second
\* response is no 200; a call that finds an expired token and a refresh
\* token begins with a refresh and logs in only after the refresh failed;
\* and a request is sent only by a call whose authentication succeeded.
C30_BoundedRetry == []RequestsWellFormed /\ <>AllCallsEnded

\* C30 witness: a call found an expired token, its refresh failed and its
\* login succeeded; the request got a 401, the second login succeeded and
\* the second request got a 403: the call raised after two requests.
C30_Witness ==
    \E c \in Callers :
        /\ calls[c].found = "expired"
        /\ calls[c].pc = "raised"
        /\ calls[c].sent = 2
        /\ calls[c].statuses = <<401, 403>>
        /\ Len(calls[c].exchanges) = 3
        /\ calls[c].exchanges[1] = [kind |-> "refresh", ok |-> "failed"]
        /\ calls[c].exchanges[2] = [kind |-> "login", ok |-> "ok"]
        /\ calls[c].exchanges[3] = [kind |-> "relogin", ok |-> "ok"]

====
